---- MODULE Spec2Model ----
(***************************************************************************)
(* Model of the Enigma emulator: Rotor (Rotor.py), its ETW and Reflector   *)
(* subclasses (ETW.py, Reflector.py), EnigmaMachine (Enigma.py) and the    *)
(* Enigma I catalogue entries of Historical.py.                            *)
(*                                                                         *)
(* Python values are modelled as follows.  A dict with integer keys is a   *)
(* TLA+ function, a list is a sequence (1-based, so list index i is        *)
(* sequence index i + 1), an optional object is a sequence of length 0 or  *)
(* 1, and a value whose Python type matters (bool against tuple) is the    *)
(* string of its repr.  An operation that raises returns the name of the   *)
(* exception in the field err and "none" otherwise.                        *)
(***************************************************************************)
EXTENDS Integers, Sequences, FiniteSets, TLC

VARIABLES
    length,     \* EnigmaMachine._length
    rotors,     \* EnigmaMachine._rotors, first-loaded rotor first
    reflector,  \* EnigmaMachine._reflector, <<>> when None
    etw,        \* EnigmaMachine._etw
    plugboard,  \* EnigmaMachine._plugboard
    rotor,      \* a Rotor object used on its own, outside any machine
    before,     \* the object (machine or rotor) as it was before the last call
    last,       \* the last call: its name, arguments, result and error
    trip,       \* bookkeeping of an encode / restore / encode round trip
    calls,      \* number of calls made so far, where a run is capped
    saved       \* what the caller keeps aside: a copy of the rotor, or a
                \* dict returned by get_configuration; <<>> when nothing

vars == <<length, rotors, reflector, etw, plugboard, rotor, before, last, trip, calls,
         saved>>

machine_vars == <<length, rotors, reflector, etw, plugboard>>

-----------------------------------------------------------------------------
(* Bounds of the model.                                                    *)

\* Largest wire length of a rotor used on its own.
MaxLen == 4

\* value_number of the small machine.
SmallLen == 4

\* Number of symbols encoded in one round trip.
MaxTrip == 2

\* Number of calls made on the Enigma I machine.
MaxCalls == 4

-----------------------------------------------------------------------------
(* Python values.                                                          *)

PyTrue == "True"
PyFalse == "False"
PyTupleTrueTrue == "(True, True)"
PyNone == "None"

PyBool(b) == IF b THEN PyTrue ELSE PyFalse

\* Truth value of a Python value in a condition: a non-empty tuple is true.
Truthy(v) == v \in {PyTrue, PyTupleTrueTrue}

Reverse(s) == [i \in 1..Len(s) |-> s[Len(s) + 1 - i]]

NoCall == [op |-> "init", x |-> 0, dec |-> FALSE, ret |-> -1, out |-> PyNone, err |-> "none"]

Call(op, x, dec, ret, out, err) ==
    [op |-> op, x |-> x, dec |-> dec, ret |-> ret, out |-> out, err |-> err]

\* No call is on record: the caller is about to make one.
Idle == last = NoCall

-----------------------------------------------------------------------------
(* Rotor.py                                                                *)

\* {i: value for i, value in enumerate(wire)}
EnumerateWire(raw) == [i \in 0..(Len(raw) - 1) |-> raw[i + 1]]

\* A plausible slip: the values of the wire are not looked at.
wire_inspection_keys_only(wire) ==
    LET len == Cardinality(DOMAIN wire)
        keys == DOMAIN wire
    IN  IF len < 2 THEN [err |-> "IndexError", wire |-> wire]
        ELSE IF keys # 0..(len - 1) THEN [err |-> "NonLinearWire", wire |-> wire]
        ELSE [err |-> "none", wire |-> wire]

\* Rotor.wire_inspection on the dict made from the argument.
wire_inspection(wire) ==
    LET len == Cardinality(DOMAIN wire)
        keys == DOMAIN wire
        values == {wire[k] : k \in keys}
    IN  IF len < 2 THEN [err |-> "IndexError", wire |-> wire]
        ELSE IF keys # 0..(len - 1) THEN [err |-> "NonLinearWire", wire |-> wire]
        ELSE IF keys # values THEN [err |-> "AsymmetricWire", wire |-> wire]
        ELSE [err |-> "none", wire |-> wire]

\* A plausible slip: the reverse wire is the wire itself.
reverse_wire_same(wire) == wire

\* {key: value for value, key in wire.items()}
reverse_wire(wire) ==
    [v \in {wire[k] : k \in DOMAIN wire} |-> CHOOSE k \in DOMAIN wire : wire[k] = v]

\* Rotor.is_in_range
is_in_range(r, value) == 0 <= value /\ value < r.length

\* A plausible slip: None stands for "normal" in every class.
rotation_setter_always_normal(cls, value) ==
    IF value = PyNone THEN "normal" ELSE value

\* Rotor.rotation setter, ETW.rotation setter, Reflector.rotation setter:
\* what None stands for depends on the class.
rotation_setter(cls, value) ==
    IF value = PyNone
    THEN (IF cls = "Rotor" THEN "normal" ELSE "without")
    ELSE value

\* A plausible slip: the ring offset is moved along with the position.
position_setter_shifts_ring(r, value) ==
    [r EXCEPT !.position = value % r.length, !.offset = (r.offset + 1) % r.length]

\* Rotor.position setter.
position_setter(r, value) == [r EXCEPT !.position = value % r.length]

\* A plausible slip: the offset is stored before it is looked at.
offset_setter_assign_first(r, n) ==
    IF ~is_in_range(r, n)
    THEN [rotor |-> [r EXCEPT !.offset = n], err |-> "ValueError"]
    ELSE [rotor |-> [r EXCEPT !.offset = n], err |-> "none"]

\* Rotor.offset setter.
offset_setter(r, n) ==
    IF ~is_in_range(r, n)
    THEN [rotor |-> r, err |-> "ValueError"]
    ELSE [rotor |-> [r EXCEPT !.offset = n], err |-> "none"]

\* Rotor.__init__ for a wire that passes wire_inspection, an offset in range
\* and a set of turnovers in range.
NewRotor(cls, id, wire_arg, offset, position, turnovers, rotation) ==
    LET wire == wire_inspection(wire_arg).wire
    IN  [id |-> id,
         cls |-> cls,
         wire |-> wire,
         reverse_wire |-> reverse_wire(wire),
         length |-> Cardinality(DOMAIN wire),
         position |-> position % Cardinality(DOMAIN wire),
         offset |-> offset,
         rotation |-> rotation_setter(cls, rotation),
         turnovers |-> turnovers]

\* Rotor.__init__ for any wire and offset: the object built, <<>> when the
\* constructor raises, and the error raised.  Reflector and ETW inherit it;
\* Reflector._wire_inspection is a method of another name that it never calls.
Rotor_init(cls, id, wire_arg, offset, position, turnovers, rotation) ==
    LET inspected == wire_inspection(wire_arg)
        len == Cardinality(DOMAIN wire_arg)
    IN  IF inspected.err # "none" THEN [obj |-> <<>>, err |-> inspected.err]
        ELSE IF ~(0 <= offset /\ offset < len) THEN [obj |-> <<>>, err |-> "ValueError"]
        ELSE [obj |-> <<NewRotor(cls, id, wire_arg, offset, position, turnovers, rotation)>>,
              err |-> "none"]

\* A plausible slip: the offset is added to the position.
modifier_sum(r) == r.position + r.offset

\* Rotor.modifier
modifier(r) == r.position - r.offset

\* Rotor.set_turnovers(*values): every value is looked at before the set
\* is changed.
set_turnovers(r, values) ==
    IF \E item \in values : ~is_in_range(r, item)
    THEN [rotor |-> r, err |-> "ValueError"]
    ELSE [rotor |-> [r EXCEPT !.turnovers = values], err |-> "none"]

\* Rotor.turnovers setter for a tuple, a list or a set of integers.
turnovers_setter(r, value) == set_turnovers(r, value)

\* Rotor.set_overflow(*values): set_turnovers of every value minus one.
set_overflow(r, values) == set_turnovers(r, {value - 1 : value \in values})

\* Rotor.overflows setter for a tuple, a list or a set of integers.
overflows_setter(r, value) == set_overflow(r, value)

\* Rotor.overflows getter
overflows(r) == {value + 1 : value \in r.turnovers}

\* Rotor.get_configuration: the dict returned.  "position" holds self.offset
\* and "offset" holds self.position.
get_configuration(r) ==
    [position |-> r.offset,
     offset |-> r.position,
     turnovers |-> r.turnovers,
     rotation |-> r.rotation]

\* Rotor.get_full_configuration: get_configuration with the wire added (the
\* description is not modelled).
get_full_configuration(r) ==
    [position |-> get_configuration(r).position,
     offset |-> get_configuration(r).offset,
     turnovers |-> get_configuration(r).turnovers,
     rotation |-> get_configuration(r).rotation,
     wire |-> r.wire]

\* Rotor.copy, Rotor.__copy__: type(self)(**self.get_full_configuration()),
\* a new object, named id here.
copy(r, id) ==
    LET c == get_full_configuration(r)
    IN  Rotor_init(r.cls, id, c.wire, c.offset, c.position, c.turnovers, c.rotation)

\* Rotor.configure(offset, position, turnovers, rotation): each argument is
\* assigned when it is truthy, so 0 and an empty set are passed over.
configure(r, c) ==
    LET r1 == IF c.offset # 0 THEN offset_setter(r, c.offset)
              ELSE [rotor |-> r, err |-> "none"]
        r2 == IF c.position # 0 THEN position_setter(r1.rotor, c.position) ELSE r1.rotor
        r3 == IF c.turnovers # {} THEN turnovers_setter(r2, c.turnovers)
              ELSE [rotor |-> r2, err |-> "none"]
        r4 == [r3.rotor EXCEPT !.rotation = rotation_setter(r.cls, c.rotation)]
    IN  IF r1.err # "none" THEN r1
        ELSE IF r3.err # "none" THEN r3
        ELSE [rotor |-> r4, err |-> "none"]

\* A plausible slip: the value read from the wire is not shifted back.
forward_reading_unshifted(r, value) ==
    r.wire[(value + modifier(r)) % r.length]

\* Rotor.forward_reading
forward_reading(r, value) ==
    (r.wire[(value + modifier(r)) % r.length] - modifier(r)) % r.length

\* Rotor.backward_reading
backward_reading(r, value) ==
    (r.reverse_wire[(value + modifier(r)) % r.length] - modifier(r)) % r.length

\* Rotor.is_in_turnover_position
is_in_turnover_position(r) == r.position \in r.turnovers

\* Rotor.can_rotate
can_rotate(r) == r.rotation # "without"

\* A plausible slip: a rotor that moves never reports a turnover.
Rotor_turn_never_signals(r) ==
    IF r.rotation = "normal"
    THEN [rotor |-> position_setter(r, r.position + 1), out |-> PyFalse]
    ELSE IF r.rotation = "reversed"
    THEN [rotor |-> position_setter(r, r.position - 1), out |-> PyFalse]
    ELSE [rotor |-> r, out |-> PyTupleTrueTrue]

\* A plausible slip: the turnover is looked up after the move.
Rotor_turn_after(r) ==
    LET moved == IF r.rotation = "normal" THEN position_setter(r, r.position + 1)
                 ELSE IF r.rotation = "reversed" THEN position_setter(r, r.position - 1)
                 ELSE r
    IN  [rotor |-> moved, out |-> PyBool(is_in_turnover_position(moved))]

\* Rotor.turn: the rotor after the call and the value returned.
Rotor_turn(r) ==
    LET bool_ == is_in_turnover_position(r)
    IN  IF r.rotation = "normal"
        THEN [rotor |-> position_setter(r, r.position + 1), out |-> PyBool(bool_)]
        ELSE IF r.rotation = "reversed"
        THEN [rotor |-> position_setter(r, r.position - 1), out |-> PyBool(bool_)]
        ELSE IF r.rotation = "without"
        THEN [rotor |-> r, out |-> PyTupleTrueTrue]
        ELSE [rotor |-> r, out |-> PyBool(bool_)]

-----------------------------------------------------------------------------
(* A rotor on its own: every rotor of length 2..MaxLen that the            *)
(* constructor accepts, then any sequence of turn() calls and position     *)
(* and offset assignments.                                                 *)

Rotations == {"normal", "reversed", "without"}

RawWires(n) == [1..n -> 0..(n - 1)]

ValidRawWires(n) ==
    {raw \in RawWires(n) : wire_inspection(EnumerateWire(raw)).err = "none"}

\* Sets of turnovers given to the constructor.
TurnoverChoices(n) == {{}, {0}, {n - 1}, {0, 1}}

EmptyDict == [k \in {} |-> 0]

NoMachine ==
    /\ length = 0
    /\ rotors = <<>>
    /\ reflector = <<>>
    /\ etw = <<>>
    /\ plugboard = EmptyDict

NoTrip == [phase |-> "none", start |-> <<>>, xs |-> <<>>, ys |-> <<>>, zs |-> <<>>]

InitRotor ==
    /\ NoMachine
    /\ \E n \in 2..MaxLen :
        \E raw \in ValidRawWires(n), offset \in 0..(n - 1), position \in 0..(n - 1),
           turnovers \in TurnoverChoices(n), rotation \in Rotations :
            rotor = NewRotor("Rotor", "r", EnumerateWire(raw), offset, position, turnovers, rotation)
    /\ before = rotor
    /\ last = NoCall
    /\ trip = NoTrip
    /\ calls = 0
    /\ saved = <<>>

RotorTurn ==
    /\ Idle
    /\ rotor' = Rotor_turn(rotor).rotor
    /\ before' = rotor
    /\ last' = Call("Rotor.turn", 0, FALSE, -1, Rotor_turn(rotor).out, "none")
    /\ UNCHANGED <<machine_vars, trip, calls, saved>>

RotorSetPosition ==
    /\ Idle
    /\ \E value \in (-1)..rotor.length :
        /\ rotor' = position_setter(rotor, value)
        /\ before' = rotor
        /\ last' = Call("Rotor.position", value, FALSE, -1, PyNone, "none")
        /\ UNCHANGED <<machine_vars, trip, calls, saved>>

RotorSetOffset ==
    /\ Idle
    /\ \E n \in (-1)..rotor.length :
        /\ rotor' = offset_setter(rotor, n).rotor
        /\ before' = rotor
        /\ last' = Call("Rotor.offset", n, FALSE, -1, PyNone, offset_setter(rotor, n).err)
        /\ UNCHANGED <<machine_vars, trip, calls, saved>>

\* Sets assigned to rotor.turnovers: the sets a rotor can be built with, a
\* value that is too large and a set with a negative value.
TurnoverAssignments(n) == TurnoverChoices(n) \cup {{n}, {0, -1}}

RotorSetTurnovers ==
    /\ Idle
    /\ \E value \in TurnoverAssignments(rotor.length) :
        /\ rotor' = turnovers_setter(rotor, value).rotor
        /\ before' = rotor
        /\ last' = Call("Rotor.turnovers", value, FALSE, -1, PyNone,
                         turnovers_setter(rotor, value).err)
        /\ UNCHANGED <<machine_vars, trip, calls, saved>>

\* The caller drops its record of the last call and of the rotor as it was
\* before it.
RotorForget ==
    /\ ~Idle
    /\ last' = NoCall
    /\ before' = rotor
    /\ UNCHANGED <<machine_vars, rotor, trip, calls, saved>>

NextRotor ==
    RotorTurn \/ RotorSetPosition \/ RotorSetOffset \/ RotorSetTurnovers \/ RotorForget

SpecRotor == InitRotor /\ [][NextRotor]_vars

-----------------------------------------------------------------------------
(* Claims about a rotor on its own.                                        *)

\* C1: at every position and offset, forward_reading and backward_reading of
\* a rotor built from a valid wire map [0,n) into [0,n) and are inverse to
\* each other in both orders, so each is a bijection of [0,n).
C1_ReadingInverse ==
    \A x \in 0..(rotor.length - 1) :
        /\ forward_reading(rotor, x) \in 0..(rotor.length - 1)
        /\ backward_reading(rotor, x) \in 0..(rotor.length - 1)
        /\ backward_reading(rotor, forward_reading(rotor, x)) = x
        /\ forward_reading(rotor, backward_reading(rotor, x)) = x

\* A rotor whose wire is not its own inverse, read at a shifted position.
C1_Witness ==
    /\ \E k \in DOMAIN rotor.wire : rotor.wire[rotor.wire[k]] # k
    /\ modifier(rotor) < 0
    /\ last.op = "Rotor.turn"

\* C6: turn() on a rotor that is not Fixed moves the position by exactly one,
\* up when Forward and down when Reverse, modulo n, and returns True exactly
\* when the position held before the move was a turnover.
C6_TurnMoves ==
    (last.op = "Rotor.turn" /\ before.rotation # "without") =>
        /\ before.rotation = "normal" =>
                rotor.position = (before.position + 1) % before.length
        /\ before.rotation = "reversed" =>
                rotor.position = (before.position - 1) % before.length
        /\ rotor.position # before.position
        /\ last.out = PyBool(before.position \in before.turnovers)

\* A Reverse rotor wrapped below 0 and reported a turnover that the position
\* reached is not.
C6_Witness ==
    /\ last.op = "Rotor.turn"
    /\ before.rotation = "reversed"
    /\ before.position = 0
    /\ rotor.position = before.length - 1
    /\ last.out = PyTrue
    /\ rotor.position \notin rotor.turnovers

\* C7: turn() on a Fixed rotor leaves the position unchanged and returns the
\* boolean True.
C7_FixedTurnReturnsTrue ==
    (last.op = "Rotor.turn" /\ before.rotation = "without") =>
        /\ rotor.position = before.position
        /\ last.out = PyTrue

-----------------------------------------------------------------------------
(* Enigma.py: the machine as a value.                                      *)

Machine ==
    [length |-> length, rotors |-> rotors, reflector |-> reflector,
     etw |-> etw, plugboard |-> plugboard]

\* An element of the machine, named by where the machine holds it.
EtwSlot == [kind |-> "etw", idx |-> 0]
ReflectorSlot == [kind |-> "reflector", idx |-> 0]
RotorSlot(i) == [kind |-> "rotor", idx |-> i]

Item(m, slot) ==
    IF slot.kind = "etw" THEN m.etw[1]
    ELSE IF slot.kind = "reflector" THEN m.reflector[1]
    ELSE m.rotors[slot.idx]

SetItem(m, slot, r) ==
    IF slot.kind = "etw" THEN [m EXCEPT !.etw = <<r>>]
    ELSE IF slot.kind = "reflector" THEN [m EXCEPT !.reflector = <<r>>]
    ELSE [m EXCEPT !.rotors[slot.idx] = r]

\* self._rotors, as slots in load order.
RotorSlots(m) == [i \in 1..Len(m.rotors) |-> RotorSlot(i)]

\* EnigmaMachine.is_in_range
machine_is_in_range(m, value) == 0 <= value /\ value < m.length

\* EnigmaMachine.is_compatible
is_compatible(m, r) == r.length = m.length

\* EnigmaMachine.set_translator for the default translator []: the list is
\* filled with range(0, length) and enumerated.
translator(m) == [i \in 0..(m.length - 1) |-> i]

\* EnigmaMachine.translate_number
translate_number(m, number) == translator(m)[number]

\* A plausible slip: an integer is taken as it is, in range or not.
translate_in_integer_unchecked(m, value) ==
    IF value \in {translator(m)[k] : k \in DOMAIN translator(m)}
    THEN [err |-> "none", value |-> CHOOSE k \in DOMAIN translator(m) : translator(m)[k] = value]
    ELSE [err |-> "none", value |-> value]

\* EnigmaMachine.translate_in_integer: under the default translator a value
\* is translated exactly when it is one of the translator's values.
translate_in_integer(m, value) ==
    IF value \in {translator(m)[k] : k \in DOMAIN translator(m)}
    THEN [err |-> "none", value |-> CHOOSE k \in DOMAIN translator(m) : translator(m)[k] = value]
    ELSE IF machine_is_in_range(m, value) THEN [err |-> "none", value |-> value]
    ELSE [err |-> "ValueError", value |-> value]

\* EnigmaMachine.get_non_stationary_items
get_non_stationary_items(m) ==
    LET initial_list ==
            IF m.reflector # <<>>
            THEN <<EtwSlot>> \o Reverse(RotorSlots(m)) \o <<ReflectorSlot>>
            ELSE RotorSlots(m)
    IN  SelectSeq(initial_list, LAMBDA slot : can_rotate(Item(m, slot)))

\* A plausible slip: the loop goes on after an item that did not signal.
RECURSIVE turn_loop_no_break(_, _, _, _)
turn_loop_no_break(m, items, i, next_can_turn) ==
    IF i > Len(items) THEN m
    ELSE LET r == Item(m, items[i])
             turns == Truthy(next_can_turn) \/ is_in_turnover_position(r)
             m2 == IF turns THEN SetItem(m, items[i], Rotor_turn(r).rotor) ELSE m
             next2 == IF turns THEN Rotor_turn(r).out ELSE next_can_turn
         IN  turn_loop_no_break(m2, items, i + 1, next2)

\* The loop of EnigmaMachine.turn from the i-th item on.
RECURSIVE turn_loop(_, _, _, _)
turn_loop(m, items, i, next_can_turn) ==
    IF i > Len(items) THEN m
    ELSE LET r == Item(m, items[i])
             turns == Truthy(next_can_turn) \/ is_in_turnover_position(r)
             m2 == IF turns THEN SetItem(m, items[i], Rotor_turn(r).rotor) ELSE m
             next2 == IF turns THEN Rotor_turn(r).out ELSE next_can_turn
         IN  IF ~Truthy(next2) THEN m2 ELSE turn_loop(m2, items, i + 1, next2)

\* A plausible slip: only the first item of the list is turned.
Machine_turn_first_only(m) ==
    turn_loop(m, SubSeq(get_non_stationary_items(m), 1, 1), 1, PyTrue)

\* EnigmaMachine.turn
Machine_turn(m) == turn_loop(m, get_non_stationary_items(m), 1, PyTrue)

\* EnigmaMachine._read_plugboard
_read_plugboard(m, index) ==
    IF index \in DOMAIN m.plugboard THEN m.plugboard[index] ELSE index

\* EnigmaMachine.read_plugboard: the value returned and the error raised.
read_plugboard(m, value, translate_result) ==
    LET index == translate_in_integer(m, value)
    IN  IF index.err # "none" THEN [ret |-> -1, err |-> index.err]
        ELSE LET plug_result == _read_plugboard(m, index.value)
             IN  IF translate_result
                 THEN [ret |-> translate_number(m, plug_result), err |-> "none"]
                 ELSE [ret |-> value, err |-> "none"]

RECURSIVE read_through(_, _, _, _)
\* for rotors in <list>: index = rotors.<reading>(index)
read_through(list, i, index, forward) ==
    IF i > Len(list) THEN index
    ELSE read_through(list, i + 1,
                      IF forward THEN forward_reading(list[i], index)
                      ELSE backward_reading(list[i], index),
                      forward)

\* A plausible slip: the rotors are read forward in load order.
_read_forward_load_order(m, index) ==
    read_through(m.rotors, 1, forward_reading(m.etw[1], index), TRUE)

\* EnigmaMachine._read_forward
_read_forward(m, index) ==
    read_through(Reverse(m.rotors), 1, forward_reading(m.etw[1], index), TRUE)

\* A plausible slip: the rotors are read backward from last-loaded to first-loaded.
_read_backward_reversed(m, index) ==
    backward_reading(m.etw[1], read_through(Reverse(m.rotors), 1, index, FALSE))

\* EnigmaMachine._read_backward
_read_backward(m, index) ==
    backward_reading(m.etw[1], read_through(m.rotors, 1, index, FALSE))

\* A plausible slip: the reflector is passed over.
_read_reflector_skipped(m, index, is_a_decoding) == index

\* A plausible slip: the reflector is read forward whatever is_a_decoding.
_read_reflector_forward_only(m, index, is_a_decoding) ==
    forward_reading(m.reflector[1], index)

\* EnigmaMachine._read_reflector
_read_reflector(m, index, is_a_decoding) ==
    IF is_a_decoding
    THEN backward_reading(m.reflector[1], index)
    ELSE forward_reading(m.reflector[1], index)

\* A plausible slip: the rotors are turned before the machine is looked at.
encode_turn_first(m, value, translate_output, is_a_decoding) ==
    LET turned == Machine_turn(m)
    IN  IF Len(m.rotors) <= 0 THEN [machine |-> turned, ret |-> -1, err |-> "NoRotorError"]
        ELSE IF m.reflector = <<>>
        THEN [machine |-> turned, ret |-> -1, err |-> "NoReflectorError"]
        ELSE IF translate_in_integer(m, value).err # "none"
        THEN [machine |-> turned, ret |-> -1, err |-> "ValueError"]
        ELSE [machine |-> turned,
              ret |-> _read_plugboard(turned, _read_backward(turned, _read_reflector(turned,
                          _read_forward(turned, _read_plugboard(m, value)), is_a_decoding))),
              err |-> "none"]

\* A plausible slip: the rotors are turned once more after the value is read.
encode_turn_twice(m, value, translate_output, is_a_decoding) ==
    IF Len(m.rotors) <= 0 THEN [machine |-> m, ret |-> -1, err |-> "NoRotorError"]
    ELSE IF m.reflector = <<>> THEN [machine |-> m, ret |-> -1, err |-> "NoReflectorError"]
    ELSE IF translate_in_integer(m, value).err # "none"
    THEN [machine |-> m, ret |-> -1, err |-> "ValueError"]
    ELSE LET turned == Machine_turn(m)
         IN  [machine |-> Machine_turn(turned),
              ret |-> _read_plugboard(turned, _read_backward(turned, _read_reflector(turned,
                          _read_forward(turned, _read_plugboard(m, value)), is_a_decoding))),
              err |-> "none"]

\* A plausible slip: the rotors are turned after the value is read.
encode_turn_last(m, value, translate_output, is_a_decoding) ==
    IF Len(m.rotors) <= 0 THEN [machine |-> m, ret |-> -1, err |-> "NoRotorError"]
    ELSE IF m.reflector = <<>> THEN [machine |-> m, ret |-> -1, err |-> "NoReflectorError"]
    ELSE IF translate_in_integer(m, value).err # "none"
    THEN [machine |-> m, ret |-> -1, err |-> "ValueError"]
    ELSE [machine |-> Machine_turn(m),
          ret |-> _read_plugboard(m, _read_backward(m, _read_reflector(m,
                      _read_forward(m, _read_plugboard(m, value)), is_a_decoding))),
          err |-> "none"]

\* EnigmaMachine.encode: the machine after the call, the value returned and
\* the error raised.
encode(m, value, translate_output, is_a_decoding) ==
    IF Len(m.rotors) <= 0 THEN [machine |-> m, ret |-> -1, err |-> "NoRotorError"]
    ELSE IF m.reflector = <<>> THEN [machine |-> m, ret |-> -1, err |-> "NoReflectorError"]
    ELSE IF translate_in_integer(m, value).err # "none"
    THEN [machine |-> m, ret |-> -1, err |-> "ValueError"]
    ELSE LET v0 == translate_in_integer(m, value).value
             v1 == _read_plugboard(m, v0)
             turned == Machine_turn(m)
             v2 == _read_forward(turned, v1)
             v3 == _read_reflector(turned, v2, is_a_decoding)
             v4 == _read_backward(turned, v3)
             v5 == _read_plugboard(turned, v4)
         IN  [machine |-> turned,
              ret |-> IF translate_output THEN translate_number(turned, v5) ELSE v5,
              err |-> "none"]

\* A plausible slip: a rotor that is in the stack is loaded again.
load_rotor_again(m, r) ==
    IF ~is_compatible(m, r) THEN [machine |-> m, err |-> "ValueError"]
    ELSE [machine |-> [m EXCEPT !.rotors = Append(m.rotors, r)], err |-> "none"]

\* A plausible slip: a rotor is looked up in the stack by what it holds.
load_rotor_by_value(m, r) ==
    IF \E i \in 1..Len(m.rotors) : [m.rotors[i] EXCEPT !.id = r.id] = r
    THEN [machine |-> m, err |-> "KeyError"]
    ELSE IF ~is_compatible(m, r) THEN [machine |-> m, err |-> "ValueError"]
    ELSE [machine |-> [m EXCEPT !.rotors = Append(m.rotors, r)], err |-> "none"]

\* EnigmaMachine.load_rotor: two rotors are the same object when they have
\* the same id.
load_rotor(m, r) ==
    IF \E i \in 1..Len(m.rotors) : m.rotors[i].id = r.id
    THEN [machine |-> m, err |-> "KeyError"]
    ELSE IF ~is_compatible(m, r) THEN [machine |-> m, err |-> "ValueError"]
    ELSE [machine |-> [m EXCEPT !.rotors = Append(m.rotors, r)], err |-> "none"]

\* EnigmaMachine.index_rotor: self._rotors.index(rotor), counted from 0;
\* Rotor defines no __eq__, so a rotor is found when it is the same object.
index_rotor(m, r) ==
    IF \E i \in 1..Len(m.rotors) : m.rotors[i].id = r.id
    THEN [index |-> (CHOOSE i \in 1..Len(m.rotors) : m.rotors[i].id = r.id) - 1,
          err |-> "none"]
    ELSE [index |-> -1, err |-> "ValueError"]

\* EnigmaMachine._rotor_index_finder for <<"int", i>> or <<"Rotor", r>>: the
\* index found, counted from 0 as in the code.
_rotor_index_finder(m, rotor_index) ==
    LET found == IF rotor_index[1] = "Rotor" THEN index_rotor(m, rotor_index[2])
                 ELSE [index |-> rotor_index[2], err |-> "none"]
        index == IF found.index < 0 THEN Len(m.rotors) - found.index ELSE found.index
    IN  IF found.err # "none" THEN found
        ELSE IF ~(0 <= index /\ index < Len(m.rotors))
        THEN [index |-> index, err |-> "ValueError"]
        ELSE [index |-> index, err |-> "none"]

\* del list[index], with index counted from 0
ListDel(list, index) ==
    [i \in 1..(Len(list) - 1) |-> IF i <= index THEN list[i] ELSE list[i + 1]]

\* EnigmaMachine.clear_rotor
clear_rotor(m) == [m EXCEPT !.rotors = <<>>]

\* EnigmaMachine.remove_rotor
remove_rotor(m, rotor_index) ==
    LET found == _rotor_index_finder(m, rotor_index)
    IN  IF found.err # "none" THEN [machine |-> m, err |-> found.err]
        ELSE [machine |-> [m EXCEPT !.rotors = ListDel(m.rotors, found.index)],
              err |-> "none"]

\* EnigmaMachine.displace_rotor
displace_rotor(m, rotor_index, to) ==
    LET first == _rotor_index_finder(m, rotor_index)
        second == _rotor_index_finder(m, to)
    IN  IF first.err # "none" THEN [machine |-> m, err |-> first.err]
        ELSE IF second.err # "none" THEN [machine |-> m, err |-> second.err]
        ELSE [machine |-> [m EXCEPT
                  !.rotors = [i \in 1..Len(m.rotors) |->
                                IF i = first.index + 1 THEN m.rotors[second.index + 1]
                                ELSE IF i = second.index + 1 THEN m.rotors[first.index + 1]
                                ELSE m.rotors[i]]],
              err |-> "none"]

\* A plausible slip: the length of the reflector is not looked at.
set_reflector_unchecked(m, r) ==
    [machine |-> [m EXCEPT !.reflector = r], err |-> "none"]

\* EnigmaMachine.set_reflector
set_reflector(m, r) ==
    IF r = <<>> THEN [machine |-> [m EXCEPT !.reflector = <<>>], err |-> "none"]
    ELSE IF ~is_compatible(m, r[1]) THEN [machine |-> m, err |-> "ValueError"]
    ELSE [machine |-> [m EXCEPT !.reflector = r], err |-> "none"]

\* tuple(range(0, n))
IdentityRaw(n) == [i \in 1..n |-> i - 1]

\* EnigmaMachine.set_etw
set_etw(m, e) ==
    LET wheel == IF e = <<>>
                 THEN NewRotor("ETW", "etw0", EnumerateWire(IdentityRaw(m.length)), 0, 0, {}, PyNone)
                 ELSE e[1]
    IN  IF ~is_compatible(m, wheel) THEN [machine |-> m, err |-> "ValueError"]
        ELSE [machine |-> [m EXCEPT !.etw = <<wheel>>], err |-> "none"]

\* EnigmaMachine.is_plugged on an integer in range
is_plugged(m, value) == value \in DOMAIN m.plugboard

\* self._plugboard[key] = value
DictSet(d, key, value) ==
    [k \in DOMAIN d \cup {key} |-> IF k = key THEN value ELSE d[k]]

\* del self._plugboard[key]
DictDel(d, key) == [k \in DOMAIN d \ {key} |-> d[k]]

\* A plausible slip: only the first value is given a partner.
plug_one_way(m, first_value, second_value) ==
    IF translate_in_integer(m, first_value).err # "none"
       \/ translate_in_integer(m, second_value).err # "none"
    THEN [machine |-> m, err |-> "ValueError"]
    ELSE IF is_plugged(m, first_value)
    THEN (IF m.plugboard[first_value] = second_value
          THEN [machine |-> m, err |-> "none"]
          ELSE [machine |-> m, err |-> "KeyError"])
    ELSE IF is_plugged(m, second_value) THEN [machine |-> m, err |-> "KeyError"]
    ELSE [machine |-> [m EXCEPT !.plugboard = DictSet(m.plugboard, first_value, second_value)],
          err |-> "none"]

\* A plausible slip: the second value is not looked up in the plugboard.
plug_unchecked_second(m, first_value, second_value) ==
    IF translate_in_integer(m, first_value).err # "none"
       \/ translate_in_integer(m, second_value).err # "none"
    THEN [machine |-> m, err |-> "ValueError"]
    ELSE IF is_plugged(m, first_value)
    THEN (IF m.plugboard[first_value] = second_value
          THEN [machine |-> m, err |-> "none"]
          ELSE [machine |-> m, err |-> "KeyError"])
    ELSE [machine |-> [m EXCEPT !.plugboard =
                          DictSet(DictSet(m.plugboard, first_value, second_value),
                                  second_value, first_value)],
          err |-> "none"]

\* EnigmaMachine.plug with one pair of values: the body after the call on
\* others_values.
plug(m, first_value, second_value) ==
    IF translate_in_integer(m, first_value).err # "none"
       \/ translate_in_integer(m, second_value).err # "none"
    THEN [machine |-> m, err |-> "ValueError"]
    ELSE IF is_plugged(m, first_value)
    THEN (IF m.plugboard[first_value] = second_value
          THEN [machine |-> m, err |-> "none"]
          ELSE [machine |-> m, err |-> "KeyError"])
    ELSE IF is_plugged(m, second_value) THEN [machine |-> m, err |-> "KeyError"]
    ELSE [machine |-> [m EXCEPT !.plugboard =
                          DictSet(DictSet(m.plugboard, first_value, second_value),
                                  second_value, first_value)],
          err |-> "none"]

\* EnigmaMachine.unplug with one value
unplug(m, value) ==
    IF translate_in_integer(m, value).err # "none" THEN [machine |-> m, err |-> "ValueError"]
    ELSE IF ~is_plugged(m, value) THEN [machine |-> m, err |-> "none"]
    ELSE LET second_value == m.plugboard[value]
             d1 == DictDel(m.plugboard, value)
         IN  IF second_value \notin DOMAIN d1
             THEN [machine |-> [m EXCEPT !.plugboard = d1], err |-> "KeyError"]
             ELSE [machine |-> [m EXCEPT !.plugboard = DictDel(d1, second_value)],
                   err |-> "none"]

RECURSIVE plug_others(_, _)
\* EnigmaMachine.plug(*values): the values after the first two are handed to
\* plug first, and a call with fewer than two values is a TypeError.
plug_others(m, values) ==
    IF Len(values) < 2 THEN [machine |-> m, err |-> "TypeError"]
    ELSE LET inner == IF Len(values) > 2
                      THEN plug_others(m, SubSeq(values, 3, Len(values)))
                      ELSE [machine |-> m, err |-> "none"]
         IN  IF inner.err # "none" THEN inner
             ELSE plug(inner.machine, values[1], values[2])

RECURSIVE unplug_others(_, _)
\* EnigmaMachine.unplug(*values): the values after the first are handed to
\* unplug first.
unplug_others(m, values) ==
    IF Len(values) < 1 THEN [machine |-> m, err |-> "TypeError"]
    ELSE LET inner == IF Len(values) > 1
                      THEN unplug_others(m, SubSeq(values, 2, Len(values)))
                      ELSE [machine |-> m, err |-> "none"]
         IN  IF inner.err # "none" THEN inner
             ELSE unplug(inner.machine, values[1])

\* rotor.position = v, or rotor.offset = v, on the object named id, which
\* the machine may hold in more than one place.
set_rotor_attribute(m, id, v, offset) ==
    LET assign(r) == IF r.id # id THEN r
                     ELSE IF offset THEN offset_setter(r, v).rotor
                     ELSE position_setter(r, v)
    IN  [m EXCEPT !.rotors = [i \in 1..Len(m.rotors) |-> assign(m.rotors[i])],
                  !.reflector = [i \in 1..Len(m.reflector) |-> assign(m.reflector[i])],
                  !.etw = [i \in 1..Len(m.etw) |-> assign(m.etw[i])]]

\* The loop of EnigmaMachine.set_key from the i-th item on:
\* set_rotor_position or set_rotor_offset on each item with values[i].
RECURSIVE set_key_loop(_, _, _, _, _)
set_key_loop(m, items, values, i, offset) ==
    IF i > Len(items) THEN [machine |-> m, err |-> "none"]
    ELSE LET v == translate_in_integer(m, values[i])
         IN  IF v.err # "none" THEN [machine |-> m, err |-> v.err]
             ELSE set_key_loop(set_rotor_attribute(m, items[i].id, v.value, offset),
                               items, values, i + 1, offset)

\* EnigmaMachine.set_key(*values, reflector=..., etw=..., offset=...): the
\* machine after the call and the error raised.  Without the reflector
\* flag items is self._rotors itself, and items.append adds the entry
\* wheel to the stack.
set_key(m, values, reflector_flag, etw_flag, offset) ==
    IF reflector_flag /\ m.reflector = <<>> THEN [machine |-> m, err |-> "NoReflectorError"]
    ELSE LET m2 == IF etw_flag /\ ~reflector_flag
                   THEN [m EXCEPT !.rotors = Append(@, m.etw[1])]
                   ELSE m
             items == IF reflector_flag
                      THEN m.reflector \o m.rotors \o (IF etw_flag THEN m.etw ELSE <<>>)
                      ELSE m2.rotors
         IN  IF Len(values) < Len(items) THEN [machine |-> m2, err |-> "ValueError"]
             ELSE set_key_loop(m2, items, values, 1, offset)

\* EnigmaMachine.__init__ with value_number = n and nothing else given.
NewMachine(n) ==
    set_etw([length |-> n, rotors |-> <<>>, reflector |-> <<>>, etw |-> <<>>,
             plugboard |-> EmptyDict], <<>>).machine

-----------------------------------------------------------------------------
(* The small machine: EnigmaMachine(SmallLen), then any sequence of        *)
(* load_rotor, set_reflector, set_etw, plug, unplug, turn and encode       *)
(* calls.  The objects handed to the machine are freshly constructed.      *)
(* Each call is recorded in last and before until the caller forgets it.   *)

\* Wires of length n, as the lists given to the constructor.
TwistRaw(n) == [i \in 1..n |-> IF i = 1 THEN 1 ELSE IF i = 2 THEN 2 ELSE IF i = 3 THEN 0 ELSE i - 1]
SwapRaw(n) == [i \in 1..n |-> IF i = 1 THEN 1 ELSE IF i = 2 THEN 0 ELSE i - 1]
MirrorRaw(n) == [i \in 1..n |-> n - i]

\* Rotor(wire=..., turnovers={1})
RotorA(n) == NewRotor("Rotor", "A", EnumerateWire(TwistRaw(n)), 0, 0, {1}, PyNone)
\* Rotor(wire=..., offset=1, turnovers={0}, rotation="reversed")
RotorB(n) == NewRotor("Rotor", "B", EnumerateWire(SwapRaw(n)), 1, 0, {0}, "reversed")
\* Rotor(wire=..., position=1, turnovers={1}, rotation="without")
RotorC(n) == NewRotor("Rotor", "C", EnumerateWire(MirrorRaw(n)), 0, 1, {1}, "without")
\* A rotor one value longer than the machine.
RotorD(n) == NewRotor("Rotor", "D", EnumerateWire(IdentityRaw(n + 1)), 0, 0, {}, PyNone)

\* Reflector(wire=...)
ReflectorU(n) == NewRotor("Reflector", "U", EnumerateWire(MirrorRaw(n)), 0, 0, {}, PyNone)
\* Reflector(wire=..., turnovers={0}, rotation="normal")
ReflectorV(n) == NewRotor("Reflector", "V", EnumerateWire(SwapRaw(n)), 0, 0, {0}, "normal")
\* Rotor(wire=..., rotation="without"), a wire that is no involution
ReflectorW(n) == NewRotor("Rotor", "W", EnumerateWire(TwistRaw(n)), 0, 0, {}, "without")

\* ETW(wire=..., turnovers={n - 1}, rotation="normal")
EtwE(n) == NewRotor("ETW", "E", EnumerateWire(SwapRaw(n)), 0, 0, {n - 1}, "normal")

\* A reflector and an entry wheel one value longer than the machine.
ReflectorD(n) == NewRotor("Reflector", "UD", EnumerateWire(MirrorRaw(n + 1)), 0, 0, {}, PyNone)
EtwD(n) == NewRotor("ETW", "ED", EnumerateWire(IdentityRaw(n + 1)), 0, 0, {}, PyNone)

RotorBox(n) == {RotorA(n), RotorB(n), RotorC(n), RotorD(n)}
ReflectorBox(n) ==
    {<<>>, <<ReflectorU(n)>>, <<ReflectorV(n)>>, <<ReflectorW(n)>>, <<ReflectorD(n)>>}
EtwBox(n) == {<<>>, <<EtwE(n)>>, <<EtwD(n)>>}
PlugPairs == {<<0, 1>>, <<1, 2>>}

SetMachine(m) ==
    /\ length' = m.length
    /\ rotors' = m.rotors
    /\ reflector' = m.reflector
    /\ etw' = m.etw
    /\ plugboard' = m.plugboard

IsMachine(m) ==
    /\ length = m.length
    /\ rotors = m.rotors
    /\ reflector = m.reflector
    /\ etw = m.etw
    /\ plugboard = m.plugboard

Init ==
    /\ IsMachine(NewMachine(SmallLen))
    /\ rotor = <<>>
    /\ before = Machine
    /\ last = NoCall
    /\ trip = NoTrip
    /\ calls = 0
    /\ saved = <<>>

Turn ==
    /\ Idle
    /\ \E turned \in {Machine_turn(Machine)} : SetMachine(turned)
    /\ before' = Machine
    /\ last' = Call("turn", 0, FALSE, -1, PyNone, "none")
    /\ UNCHANGED <<rotor, trip, calls, saved>>

Encode ==
    /\ Idle
    /\ \E value \in (-1)..length, is_a_decoding \in BOOLEAN :
            \E res \in {encode(Machine, value, TRUE, is_a_decoding)} :
                /\ SetMachine(res.machine)
                /\ before' = Machine
                /\ last' = Call("encode", value, is_a_decoding, res.ret, PyNone, res.err)
                /\ UNCHANGED <<rotor, trip, calls, saved>>

LoadRotor ==
    /\ Idle
    /\ \E r \in RotorBox(length) :
            \E res \in {load_rotor(Machine, r)} :
                /\ SetMachine(res.machine)
                /\ before' = Machine
                /\ last' = Call("load_rotor", 0, FALSE, -1, r.id, res.err)
                /\ UNCHANGED <<rotor, trip, calls, saved>>

SetReflector ==
    /\ Idle
    /\ \E r \in ReflectorBox(length) :
            \E res \in {set_reflector(Machine, r)} :
                /\ SetMachine(res.machine)
                /\ before' = Machine
                /\ last' = Call("set_reflector", 0, FALSE, -1,
                                 IF r = <<>> THEN PyNone ELSE r[1].id, res.err)
                /\ UNCHANGED <<rotor, trip, calls, saved>>

SetEtw ==
    /\ Idle
    /\ \E e \in EtwBox(length) :
            \E res \in {set_etw(Machine, e)} :
                /\ SetMachine(res.machine)
                /\ before' = Machine
                /\ last' = Call("set_etw", 0, FALSE, -1,
                                 IF e = <<>> THEN PyNone ELSE e[1].id, res.err)
                /\ UNCHANGED <<rotor, trip, calls, saved>>

Plug ==
    /\ Idle
    /\ \E pair \in PlugPairs :
            \E res \in {plug(Machine, pair[1], pair[2])} :
                /\ SetMachine(res.machine)
                /\ before' = Machine
                /\ last' = Call("plug", pair[1], FALSE, pair[2], PyNone, res.err)
                /\ UNCHANGED <<rotor, trip, calls, saved>>

Unplug ==
    /\ Idle
    /\ \E value \in 0..(length - 1) :
            \E res \in {unplug(Machine, value)} :
                /\ SetMachine(res.machine)
                /\ before' = Machine
                /\ last' = Call("unplug", value, FALSE, -1, PyNone, res.err)
                /\ UNCHANGED <<rotor, trip, calls, saved>>

\* The caller drops its record of the last call and of the machine as it
\* was before it.
Forget ==
    /\ ~Idle
    /\ last' = NoCall
    /\ before' = Machine
    /\ UNCHANGED <<machine_vars, rotor, trip, calls, saved>>

Next ==
    Turn \/ Encode \/ LoadRotor \/ SetReflector \/ SetEtw \/ Plug \/ Unplug \/ Forget

Spec == Init /\ [][Next]_vars

-----------------------------------------------------------------------------
(* Historical.py: the Enigma I rotors and reflector, in a machine of       *)
(* length 26 that is turned and made to encode MaxCalls times.             *)

Alphabet == <<"A", "B", "C", "D", "E", "F", "G", "H", "I", "J", "K", "L", "M", "N", "O", "P", "Q", "R", "S", "T", "U", "V", "W", "X", "Y", "Z">>

\* alphabet.index(c)
AlphabetIndex(alphabet, c) ==
    CHOOSE i \in 0..(Len(alphabet) - 1) :
        /\ alphabet[i + 1] = c
        /\ \A j \in 0..(i - 1) : alphabet[j + 1] # c

\* Rotor.rapid_wire, as called by EnigmaContainer.toWire without reverse
rapid_wire(values, alphabet) ==
    [i \in 0..(Len(values) - 1) |-> AlphabetIndex(alphabet, values[i + 1])]

\* EnigmaContainer.toTurnover
toTurnover(values) == {AlphabetIndex(Alphabet, values[i]) : i \in DOMAIN values}

\* EnigmaI.getETW
getETW ==
    NewRotor("ETW", "ETW", rapid_wire(Alphabet, Alphabet), 0, 0, {}, PyNone)

\* EnigmaI.getRotorI
getRotorI ==
    NewRotor("Rotor", "I",
             rapid_wire(<<"E", "K", "M", "F", "L", "G", "D", "Q", "V", "Z", "N", "T", "O", "W", "Y", "H", "X", "U", "S", "P", "A", "I", "B", "R", "C", "J">>, Alphabet),
             0, 0, toTurnover(<<"Q">>), PyNone)

\* EnigmaI.getRotorII
getRotorII ==
    NewRotor("Rotor", "II",
             rapid_wire(<<"A", "J", "D", "K", "S", "I", "R", "U", "X", "B", "L", "H", "W", "T", "M", "C", "Q", "G", "Z", "N", "P", "Y", "F", "V", "O", "E">>, Alphabet),
             0, 0, toTurnover(<<"E">>), PyNone)

\* EnigmaI.getRotorIII
getRotorIII ==
    NewRotor("Rotor", "III",
             rapid_wire(<<"B", "D", "F", "H", "J", "L", "C", "P", "R", "T", "X", "V", "Z", "N", "Y", "E", "I", "W", "G", "A", "K", "M", "U", "S", "Q", "O">>, Alphabet),
             0, 0, toTurnover(<<"V">>), PyNone)

\* EnigmaI.getReflectorUKWB
getReflectorUKWB ==
    NewRotor("Reflector", "UKWB",
             rapid_wire(<<"Y", "R", "U", "H", "Q", "S", "L", "D", "P", "X", "N", "G", "O", "K", "M", "I", "E", "B", "F", "Z", "C", "W", "V", "J", "A", "T">>, Alphabet),
             0, 0, {}, PyNone)

\* EnigmaMachine(26) with rotors I, II, III loaded in that order, reflector
\* UKW-B and the Enigma I entry wheel.
EnigmaI ==
    set_etw(set_reflector(load_rotor(load_rotor(load_rotor(NewMachine(Len(Alphabet)),
        getRotorI).machine, getRotorII).machine, getRotorIII).machine,
        <<getReflectorUKWB>>).machine, <<getETW>>).machine

\* The positions of the rotors, first-loaded first.
Key(m) == [i \in 1..Len(m.rotors) |-> m.rotors[i].position]

\* rotor.position = value for every rotor of the stack
SetKey(m, key) ==
    [m EXCEPT !.rotors = [i \in 1..Len(m.rotors) |-> position_setter(m.rotors[i], key[i])]]

\* Start positions A A A and A D U.
StartKeys == {<<0, 0, 0>>, <<0, 3, 20>>}

InitHist ==
    /\ \E key \in StartKeys : IsMachine(SetKey(EnigmaI, key))
    /\ rotor = <<>>
    /\ before = Machine
    /\ last = NoCall
    /\ trip = NoTrip
    /\ calls = 0
    /\ saved = <<>>

HistTurn ==
    /\ calls < MaxCalls
    /\ \E turned \in {Machine_turn(Machine)} : SetMachine(turned)
    /\ before' = Machine
    /\ last' = Call("turn", 0, FALSE, -1, PyNone, "none")
    /\ calls' = calls + 1
    /\ UNCHANGED <<rotor, trip, saved>>

HistEncode ==
    /\ calls < MaxCalls
    /\ \E value \in 0..(length - 1) :
        \E res \in {encode(Machine, value, TRUE, FALSE)} :
            /\ SetMachine(res.machine)
            /\ before' = Machine
            /\ last' = Call("encode", value, FALSE, res.ret, PyNone, res.err)
            /\ calls' = calls + 1
            /\ UNCHANGED <<rotor, trip, saved>>

NextHist == HistTurn \/ HistEncode

SpecHist == InitHist /\ [][NextHist]_vars

-----------------------------------------------------------------------------
(* Claims about the stepping and the signal path of the machine.           *)

\* The positions of the entry wheel, of the rotors and of the reflector.
AllPositions(m) ==
    [etw |-> [i \in 1..Len(m.etw) |-> m.etw[i].position],
     rotors |-> Key(m),
     reflector |-> [i \in 1..Len(m.reflector) |-> m.reflector[i].position]]

\* The loop as C3 states it: an element steps when allow_next holds or when
\* it stands on a turnover, and the walk ends at the first element for which
\* neither holds.
RECURSIVE C3_Walk(_, _, _, _)
C3_Walk(m, items, i, allow_next) ==
    IF i > Len(items) THEN m
    ELSE LET r == Item(m, items[i])
         IN  IF Truthy(allow_next) \/ is_in_turnover_position(r)
             THEN C3_Walk(SetItem(m, items[i], Rotor_turn(r).rotor), items, i + 1,
                          Rotor_turn(r).out)
             ELSE m

\* C3: one turn() walks the non-stationary elements in stepping order; an
\* element steps when allow_next is true or when it is itself on a turnover
\* position, even if the element before it stepped without signalling, and
\* the walk stops only at the first element for which neither holds.
C3_TurnWalk ==
    last.op = "turn" =>
        AllPositions(Machine) =
            AllPositions(C3_Walk(before, get_non_stationary_items(before), 1, PyTrue))

\* C4: three Forward rotors loaded left, middle, right with turnovers Q, E, V
\* at positions A D U go to A D V, then A E W, then B F X in three turns.
C4_DoubleStep ==
    last.op = "turn" =>
        /\ Key(before) = <<0, 3, 20>> => Key(Machine) = <<0, 3, 21>>
        /\ Key(before) = <<0, 3, 21>> => Key(Machine) = <<0, 4, 22>>
        /\ Key(before) = <<0, 4, 22>> => Key(Machine) = <<1, 5, 23>>

\* C5: Enigma I with rotors I, II, III, reflector UKW-B, the identity entry
\* wheel, no plug, all positions and offsets 0 returns 1 for encode(0).
C5_KnownAnswer ==
    (/\ last.op = "encode"
     /\ last.x = 0
     /\ Key(before) = <<0, 0, 0>>
     /\ \A i \in 1..Len(before.rotors) : before.rotors[i].offset = 0
     /\ before.plugboard = EmptyDict) => last.ret = 1

\* encode(0) has been called on the machine at A A A and has returned.
C5_Witness ==
    /\ last.op = "encode"
    /\ last.x = 0
    /\ last.err = "none"
    /\ Key(before) = <<0, 0, 0>>
    /\ Key(Machine) = <<0, 0, 1>>
    /\ [i \in 1..3 |-> before.rotors[i].id] = <<"I", "II", "III">>
    /\ before.reflector[1].id = "UKWB"
    /\ before.etw[1].wire = [i \in 0..25 |-> i]

\* C8: a successful encode steps the machine exactly as one turn() from the
\* same state does, whatever the value, and the first non-stationary element
\* moves by exactly one position.
C8_EncodeTurnsOnce ==
    (last.op = "encode" /\ last.err = "none") =>
        /\ AllPositions(Machine) = AllPositions(Machine_turn(before))
        /\ get_non_stationary_items(before) # <<>> =>
            LET slot == get_non_stationary_items(before)[1]
                old == Item(before, slot)
                new == Item(Machine, slot)
            IN  /\ old.rotation = "normal" => new.position = (old.position + 1) % old.length
                /\ old.rotation = "reversed" => new.position = (old.position - 1) % old.length
                /\ new.position # old.position

\* A successful encode in which the first element and the one after it stepped.
C8_Witness ==
    /\ last.op = "encode"
    /\ last.err = "none"
    /\ Len(get_non_stationary_items(before)) >= 2
    /\ \A i \in 1..2 :
        Item(Machine, get_non_stationary_items(before)[i]).position #
            Item(before, get_non_stationary_items(before)[i]).position

\* The stepping order as C9 states it.
C9_Order(m) ==
    SelectSeq(<<EtwSlot>> \o Reverse(RotorSlots(m))
                  \o (IF m.reflector # <<>> THEN <<ReflectorSlot>> ELSE <<>>),
              LAMBDA slot : can_rotate(Item(m, slot)))

\* C9: whether a reflector is set or not, turn() steps through the entry
\* wheel, the rotors from last-loaded to first-loaded and the reflector if
\* set, leaving out the elements that cannot rotate.
C9_SteppingOrder ==
    last.op = "turn" =>
        AllPositions(Machine) = AllPositions(turn_loop(before, C9_Order(before), 1, PyTrue))

\* The plugboard swap, read from the plugboard itself.
C10_Swap(m, x) == IF x \in DOMAIN m.plugboard THEN m.plugboard[x] ELSE x

\* The signal path as C10 states it, written out for one, two and three rotors.
C10_Path(m, x, is_a_decoding) ==
    LET r1 == m.rotors[1]
        r2 == m.rotors[2]
        r3 == m.rotors[3]
        k == Len(m.rotors)
        e == forward_reading(m.etw[1], C10_Swap(m, x))
        f == IF k = 1 THEN forward_reading(r1, e)
             ELSE IF k = 2 THEN forward_reading(r1, forward_reading(r2, e))
             ELSE forward_reading(r1, forward_reading(r2, forward_reading(r3, e)))
        u == IF is_a_decoding THEN backward_reading(m.reflector[1], f)
             ELSE forward_reading(m.reflector[1], f)
        b == IF k = 1 THEN backward_reading(r1, u)
             ELSE IF k = 2 THEN backward_reading(r2, backward_reading(r1, u))
             ELSE backward_reading(r3, backward_reading(r2, backward_reading(r1, u)))
    IN  C10_Swap(m, backward_reading(m.etw[1], b))

\* C10: the value returned by encode is the plugboard swap, the entry wheel
\* read forward, the rotors read forward from last-loaded to first-loaded,
\* the reflector, the rotors read backward from first-loaded to last-loaded,
\* the entry wheel read backward and the plugboard swap, on the positions
\* reached after the stepping of the call.
C10_SignalPath ==
    (last.op = "encode" /\ last.err = "none") =>
        /\ Len(Machine.rotors) \in 1..3
        /\ last.ret = C10_Path(Machine, last.x, last.dec)

\* A successful encode through three rotors, a turning entry wheel and a
\* plug on the value given, on positions that the call has changed.
C10_Witness ==
    /\ last.op = "encode"
    /\ last.err = "none"
    /\ Len(rotors) = 3
    /\ last.x \in DOMAIN plugboard
    /\ etw[1].rotation = "normal"
    /\ Key(Machine) # Key(before)
    /\ last.ret # last.x

-----------------------------------------------------------------------------
(* The round trip: a machine with rotors, a reflector whose wire is an     *)
(* involution, an entry wheel and plugs encodes up to MaxTrip values, has  *)
(* every position set back to what it was, and encodes what it returned.   *)

Involutive(wire) == \A k \in DOMAIN wire : wire[wire[k]] = k

\* The rotors loaded in a trip machine, first-loaded first.
TripStacks(n) ==
    {<<RotorA(n)>>, <<RotorB(n), RotorA(n)>>, <<RotorA(n), RotorC(n), RotorB(n)>>}

RECURSIVE LoadAll(_, _, _)
\* load_rotor called on each rotor of the list in turn
LoadAll(m, list, i) ==
    IF i > Len(list) THEN m ELSE LoadAll(load_rotor(m, list[i]).machine, list, i + 1)

\* The positions given to the rotors of a stack: any position for a rotor
\* that can rotate, the position it was built with for one that cannot.
TripKeys(stack) ==
    {key \in [1..Len(stack) -> 0..(stack[1].length - 1)] :
        \A i \in 1..Len(stack) : can_rotate(stack[i]) \/ key[i] = stack[i].position}

\* The machine with no plug or with one of the pairs plugged.
TripPlugs(m) == {m} \cup {plug(m, pair[1], pair[2]).machine : pair \in PlugPairs}

InitRound ==
    /\ \E stack \in TripStacks(SmallLen), r \in ReflectorBox(SmallLen), e \in EtwBox(SmallLen) :
        /\ r # <<>>
        /\ r[1].length = SmallLen
        /\ Involutive(r[1].wire)
        /\ \E key \in TripKeys(stack) :
            \E m \in TripPlugs(set_etw(set_reflector(
                        SetKey(LoadAll(NewMachine(SmallLen), stack, 1), key),
                        r).machine, e).machine) :
                IsMachine(m)
    /\ rotor = <<>>
    /\ before = Machine
    /\ last = NoCall
    /\ trip = [phase |-> "encoding", start |-> Machine, xs |-> <<>>, ys |-> <<>>, zs |-> <<>>]
    /\ calls = 0
    /\ saved = <<>>

\* rotor.position = value for the entry wheel, every rotor and the reflector,
\* with the positions that the machine s holds.
RestorePositions(m, s) ==
    [m EXCEPT
        !.etw = <<position_setter(m.etw[1], s.etw[1].position)>>,
        !.rotors = [i \in 1..Len(m.rotors) |->
                        position_setter(m.rotors[i], s.rotors[i].position)],
        !.reflector = <<position_setter(m.reflector[1], s.reflector[1].position)>>]

TripEncode ==
    /\ trip.phase = "encoding"
    /\ Len(trip.xs) < MaxTrip
    /\ \E value \in 0..(length - 1) :
        \E res \in {encode(Machine, value, TRUE, FALSE)} :
            /\ SetMachine(res.machine)
            /\ trip' = [trip EXCEPT !.xs = Append(@, value), !.ys = Append(@, res.ret)]
    /\ UNCHANGED <<rotor, before, last, calls, saved>>

TripRestore ==
    /\ trip.phase = "encoding"
    /\ Len(trip.xs) >= 1
    /\ SetMachine(RestorePositions(Machine, trip.start))
    /\ trip' = [trip EXCEPT !.phase = "decoding"]
    /\ UNCHANGED <<rotor, before, last, calls, saved>>

TripDecode ==
    /\ trip.phase = "decoding"
    /\ Len(trip.zs) < Len(trip.ys)
    /\ \E res \in {encode(Machine, trip.ys[Len(trip.zs) + 1], TRUE, FALSE)} :
           /\ SetMachine(res.machine)
           /\ trip' = [trip EXCEPT !.zs = Append(@, res.ret)]
    /\ UNCHANGED <<rotor, before, last, calls, saved>>

NextRound == TripEncode \/ TripRestore \/ TripDecode

SpecRound == InitRound /\ [][NextRound]_vars

\* C2: with at least one rotor and a reflector whose wire is an involution,
\* encoding x1..xk from a state, setting every position back to that state
\* and encoding the values returned gives x1..xk back, value by value, for
\* any plugboard and any ring offsets.
C2_RoundTrip ==
    (/\ trip.phase = "decoding"
     /\ Len(trip.start.rotors) >= 1
     /\ Involutive(trip.start.reflector[1].wire)) =>
        \A i \in 1..Len(trip.zs) : trip.zs[i] = trip.xs[i]

\* A whole trip of MaxTrip values through three rotors, one of them with a
\* ring offset, and a plug, in which the machine changed the values.
C2_Witness ==
    /\ trip.phase = "decoding"
    /\ Len(trip.xs) = MaxTrip
    /\ trip.zs = trip.xs
    /\ trip.ys # trip.xs
    /\ \A i \in 1..Len(trip.xs) : trip.ys[i] # trip.xs[i]
    /\ Len(rotors) = 3
    /\ \E i \in 1..Len(rotors) : rotors[i].offset # 0
    /\ plugboard # EmptyDict
    /\ Key(Machine) # Key(trip.start)

-----------------------------------------------------------------------------
(* Construction: Rotor(wire), Reflector(wire) and ETW(wire) called with    *)
(* every list and every dict whose keys and values lie in 0..MaxKey, then  *)
(* position and offset assignments and turn() calls on the object built.   *)
(* last.x holds the dict that the constructor inspects, last.out the class *)
(* called.                                                                 *)

\* Largest key and largest value of a wire given to a constructor.
MaxKey == 3
\* Length of the rotor that is copied and configured.
CfgLen == 3

Classes == {"Rotor", "Reflector", "ETW"}

\* Lists given as wire: every length from 0 to MaxKey + 1.
WireLists == UNION {[1..n -> 0..MaxKey] : n \in 0..(MaxKey + 1)}

\* Dicts given as wire: every set of keys.
WireDicts == UNION {[K -> 0..MaxKey] : K \in SUBSET (0..MaxKey)}

InitWire ==
    /\ NoMachine
    /\ rotor = <<>>
    /\ before = <<>>
    /\ last = NoCall
    /\ trip = NoTrip
    /\ calls = 0
    /\ saved = <<>>

\* cls(wire=wire) for the dict that wire_inspection works on
WireNew(cls, wire) ==
    \E res \in {Rotor_init(cls, "w", wire, 0, 0, {}, PyNone)} :
        /\ rotor' = res.obj
        /\ before' = <<>>
        /\ last' = Call("Rotor.__init__", wire, FALSE, -1, cls, res.err)
        /\ UNCHANGED <<machine_vars, trip, calls, saved>>

WireNewFromList ==
    /\ Idle
    /\ \E cls \in Classes, raw \in WireLists : WireNew(cls, EnumerateWire(raw))

WireNewFromDict ==
    /\ Idle
    /\ \E cls \in Classes, wire \in WireDicts : WireNew(cls, wire)

WireSetPosition ==
    /\ rotor # <<>>
    /\ \E value \in 0..(rotor[1].length - 1) :
        /\ rotor' = <<position_setter(rotor[1], value)>>
        /\ before' = rotor
        /\ last' = Call("Rotor.position", value, FALSE, -1, PyNone, "none")
        /\ UNCHANGED <<machine_vars, trip, calls, saved>>

WireSetOffset ==
    /\ rotor # <<>>
    /\ \E n \in 0..rotor[1].length :
        /\ rotor' = <<offset_setter(rotor[1], n).rotor>>
        /\ before' = rotor
        /\ last' = Call("Rotor.offset", n, FALSE, -1, PyNone, offset_setter(rotor[1], n).err)
        /\ UNCHANGED <<machine_vars, trip, calls, saved>>

WireTurn ==
    /\ rotor # <<>>
    /\ rotor' = <<Rotor_turn(rotor[1]).rotor>>
    /\ before' = rotor
    /\ last' = Call("Rotor.turn", 0, FALSE, -1, Rotor_turn(rotor[1]).out, "none")
    /\ UNCHANGED <<machine_vars, trip, calls, saved>>

\* del on the object built, if any; the caller is back where it started.
WireDel ==
    /\ ~Idle
    /\ rotor' = <<>>
    /\ before' = <<>>
    /\ last' = NoCall
    /\ UNCHANGED <<machine_vars, trip, calls, saved>>

NextWire ==
    \/ WireNewFromList
    \/ WireNewFromDict
    \/ WireSetPosition
    \/ WireSetOffset
    \/ WireTurn
    \/ WireDel

SpecWire == InitWire /\ [][NextWire]_vars

-----------------------------------------------------------------------------
(* Claims about construction.                                              *)

\* The wire has n entries, with keys 0..n-1 and values 0..n-1.
KeysInLine(wire) == DOMAIN wire = 0..(Cardinality(DOMAIN wire) - 1)
ValuesInLine(wire) == {wire[k] : k \in DOMAIN wire} = 0..(Cardinality(DOMAIN wire) - 1)
Bijective(wire) == KeysInLine(wire) /\ ValuesInLine(wire)

\* C11: Reflector(wire) raises an error for a wire that is a bijection of
\* [0,n) but no involution, so that no Reflector object holds a wire with
\* wire[wire[k]] # k.
C11_ReflectorInvolutive ==
    /\ (rotor # <<>> /\ rotor[1].cls = "Reflector") => Involutive(rotor[1].wire)
    /\ (/\ last.op = "Rotor.__init__"
        /\ last.out = "Reflector"
        /\ Bijective(last.x)
        /\ ~Involutive(last.x)) => last.err # "none"

\* C12: a Reflector whose wire is an involution reads as an involution at
\* every position and every offset, and reads the same forward and backward.
C12_ReflectorReading ==
    (rotor # <<>> /\ rotor[1].cls = "Reflector" /\ Involutive(rotor[1].wire)) =>
        \A x \in 0..(rotor[1].length - 1) :
            /\ forward_reading(rotor[1], forward_reading(rotor[1], x)) = x
            /\ forward_reading(rotor[1], x) = backward_reading(rotor[1], x)

\* A Reflector with a fixed point and a swapped pair, read away from its
\* rest position after the position was assigned.
C12_Witness ==
    /\ rotor # <<>>
    /\ rotor[1].cls = "Reflector"
    /\ Involutive(rotor[1].wire)
    /\ \E k \in DOMAIN rotor[1].wire : rotor[1].wire[k] = k
    /\ \E k \in DOMAIN rotor[1].wire : rotor[1].wire[k] # k
    /\ modifier(rotor[1]) % rotor[1].length # 0
    /\ rotor[1].offset # 0
    /\ last.op = "Rotor.position"
    /\ \E x \in 0..(rotor[1].length - 1) :
            forward_reading(rotor[1], x) # rotor[1].wire[x]

\* C13 as stated: a wire is accepted exactly when it has n >= 2 entries with
\* keys 0..n-1 and values 0..n-1; NonLinearWire is raised when the keys
\* differ from 0..n-1, AsymmetricWire when the keys are right and the values
\* differ, some error when n < 2; an accepted wire is a bijection of [0,n).
C13_WireValidation ==
    last.op = "Rotor.__init__" =>
        LET n == Cardinality(DOMAIN last.x)
            accepted == last.err = "none" /\ rotor # <<>>
        IN  /\ accepted <=> (n >= 2 /\ KeysInLine(last.x) /\ ValuesInLine(last.x))
            /\ ~KeysInLine(last.x) => last.err = "NonLinearWire"
            /\ (KeysInLine(last.x) /\ ~ValuesInLine(last.x)) => last.err = "AsymmetricWire"
            /\ n < 2 => last.err # "none"
            /\ accepted => (rotor[1].wire = last.x /\ Bijective(rotor[1].wire))

\* C13 with the order of the checks: the number of entries is looked at
\* first, so a wire with n < 2 raises IndexError whatever its keys and values;
\* NonLinearWire and AsymmetricWire are raised as stated for n >= 2.
C13_WireValidationFromTwo ==
    last.op = "Rotor.__init__" =>
        LET n == Cardinality(DOMAIN last.x)
            accepted == last.err = "none" /\ rotor # <<>>
        IN  /\ accepted <=> (n >= 2 /\ KeysInLine(last.x) /\ ValuesInLine(last.x))
            /\ (n >= 2 /\ ~KeysInLine(last.x)) => last.err = "NonLinearWire"
            /\ (n >= 2 /\ KeysInLine(last.x) /\ ~ValuesInLine(last.x)) =>
                    last.err = "AsymmetricWire"
            /\ n < 2 => last.err = "IndexError"
            /\ accepted => (rotor[1].wire = last.x /\ Bijective(rotor[1].wire))

\* A dict of three entries with a key out of line was refused.
C13_Witness ==
    /\ last.op = "Rotor.__init__"
    /\ Cardinality(DOMAIN last.x) = 3
    /\ ~KeysInLine(last.x)
    /\ ValuesInLine(last.x)
    /\ last.err = "NonLinearWire"
    /\ rotor = <<>>

-----------------------------------------------------------------------------
(* The plugboard: EnigmaMachine(SmallLen), then any sequence of plug and   *)
(* unplug calls, with one pair or value, with several, and with values     *)
(* out of range.  last.x holds the values passed.                          *)

\* plug(a, b) for any two integers from -1 to length
PlugPair ==
    /\ Idle
    /\ \E a \in (-1)..length, b \in (-1)..length :
            \E res \in {plug_others(Machine, <<a, b>>)} :
                /\ SetMachine(res.machine)
                /\ before' = Machine
                /\ last' = Call("plug", <<a, b>>, FALSE, -1, PyNone, res.err)
                /\ UNCHANGED <<rotor, trip, calls, saved>>

\* plug(a, b, c) and plug(a, b, c, d) for values in range
PlugMany ==
    /\ Idle
    /\ \E values \in [1..3 -> 0..(length - 1)] \cup [1..4 -> 0..(length - 1)] :
            \E res \in {plug_others(Machine, values)} :
                /\ SetMachine(res.machine)
                /\ before' = Machine
                /\ last' = Call("plug", values, FALSE, -1, PyNone, res.err)
                /\ UNCHANGED <<rotor, trip, calls, saved>>

\* unplug(a) for any integer from -1 to length
UnplugOne ==
    /\ Idle
    /\ \E a \in (-1)..length :
            \E res \in {unplug_others(Machine, <<a>>)} :
                /\ SetMachine(res.machine)
                /\ before' = Machine
                /\ last' = Call("unplug", <<a>>, FALSE, -1, PyNone, res.err)
                /\ UNCHANGED <<rotor, trip, calls, saved>>

\* unplug(a, b) for values in range
UnplugMany ==
    /\ Idle
    /\ \E values \in [1..2 -> 0..(length - 1)] :
            \E res \in {unplug_others(Machine, values)} :
                /\ SetMachine(res.machine)
                /\ before' = Machine
                /\ last' = Call("unplug", values, FALSE, -1, PyNone, res.err)
                /\ UNCHANGED <<rotor, trip, calls, saved>>

\* read_plugboard(value, translate_result) for any integer from -1 to length
ReadPlugboard ==
    /\ Idle
    /\ \E value \in (-1)..length, translate_result \in BOOLEAN :
            \E res \in {read_plugboard(Machine, value, translate_result)} :
                /\ before' = Machine
                /\ last' = Call("read_plugboard", <<value>>, translate_result, res.ret,
                                 PyNone, res.err)
                /\ UNCHANGED <<machine_vars, rotor, trip, calls, saved>>

NextPlug == PlugPair \/ PlugMany \/ UnplugOne \/ UnplugMany \/ ReadPlugboard \/ Forget

SpecPlug == Init /\ [][NextPlug]_vars

-----------------------------------------------------------------------------
(* Claims about the plugboard.                                             *)

\* C14: whatever plug and unplug calls were made, and whether they raised
\* or not, the plugboard is a symmetric partial map on [0,n) and reading it
\* twice gives every value of [0,n) back.
C14_PlugboardSymmetric ==
    /\ DOMAIN plugboard \subseteq 0..(length - 1)
    /\ \A k \in DOMAIN plugboard :
            /\ plugboard[k] \in DOMAIN plugboard
            /\ plugboard[plugboard[k]] = k
    /\ \A x \in 0..(length - 1) :
            _read_plugboard(Machine, _read_plugboard(Machine, x)) = x

\* A plug call with two pairs raised after it had plugged one of them, on a
\* plugboard that holds another pair.
C14_Witness ==
    /\ last.op = "plug"
    /\ Len(last.x) = 4
    /\ last.err = "KeyError"
    /\ plugboard # before.plugboard
    /\ before.plugboard # EmptyDict
    /\ \E x \in DOMAIN plugboard : plugboard[x] # x

\* C15: plug(a, b) with a and b in [0,n) raises when a or b has a partner
\* other than b or a; changes nothing and raises nothing when a and b are
\* partners of each other; otherwise makes a the partner of b and b the
\* partner of a and leaves the other pairs alone.
C15_PlugPair ==
    (/\ last.op = "plug"
     /\ Len(last.x) = 2
     /\ last.x[1] \in 0..(length - 1)
     /\ last.x[2] \in 0..(length - 1)) =>
        LET a == last.x[1]
            b == last.x[2]
            old == before.plugboard
            conflict == \/ (a \in DOMAIN old /\ old[a] # b)
                        \/ (b \in DOMAIN old /\ old[b] # a)
            partners == /\ a \in DOMAIN old
                        /\ b \in DOMAIN old
                        /\ old[a] = b
                        /\ old[b] = a
        IN  /\ conflict => last.err # "none"
            /\ partners => (last.err = "none" /\ plugboard = old)
            /\ (~conflict /\ ~partners) =>
                    /\ last.err = "none"
                    /\ DOMAIN plugboard = DOMAIN old \cup {a, b}
                    /\ plugboard[a] = b
                    /\ plugboard[b] = a
                    /\ \A k \in DOMAIN old : plugboard[k] = old[k]

\* plug(b, a) on a plugboard where a is already the partner of b.
C15_Witness ==
    /\ last.op = "plug"
    /\ Len(last.x) = 2
    /\ last.x[1] \in DOMAIN before.plugboard
    /\ before.plugboard[last.x[1]] = last.x[2]
    /\ last.x[1] > last.x[2]
    /\ Cardinality(DOMAIN plugboard) = 4
    /\ last.err = "none"

\* C16: a plug call that raises, with one pair or with several, leaves the
\* plugboard as it was before the call.
C16_FailedPlugChangesNothing ==
    (last.op = "plug" /\ last.err # "none") => plugboard = before.plugboard

\* C17: unplug(a) with a in [0,n) raises nothing; it frees a and its partner
\* and leaves the other pairs alone, and changes nothing when a has no
\* partner.
C17_Unplug ==
    (/\ last.op = "unplug"
     /\ Len(last.x) = 1
     /\ last.x[1] \in 0..(length - 1)) =>
        LET a == last.x[1]
            old == before.plugboard
        IN  /\ last.err = "none"
            /\ a \in DOMAIN old =>
                    /\ DOMAIN plugboard = DOMAIN old \ {a, old[a]}
                    /\ \A k \in DOMAIN plugboard : plugboard[k] = old[k]
            /\ a \notin DOMAIN old => plugboard = old

-----------------------------------------------------------------------------
(* The rotor stack: EnigmaMachine(SmallLen), then any sequence of          *)
(* load_rotor, remove_rotor and displace_rotor calls, by index from below  *)
(* -len to above len - 1 and by rotor.  last.x holds the arguments.        *)

\* A second object built like RotorA.
RotorA2(n) == NewRotor("Rotor", "A2", EnumerateWire(TwistRaw(n)), 0, 0, {1}, PyNone)

StackBox(n) == {RotorA(n), RotorA2(n), RotorB(n), RotorD(n)}

\* Integers given as index to a stack of len rotors.
StackIndexes(len) == (-(len + 1))..len

StackLoad ==
    /\ Idle
    /\ \E r \in StackBox(length) :
            \E res \in {load_rotor(Machine, r)} :
                /\ SetMachine(res.machine)
                /\ before' = Machine
                /\ last' = Call("load_rotor", <<r>>, FALSE, -1, PyNone, res.err)
                /\ UNCHANGED <<rotor, trip, calls, saved>>

StackRemoveAt ==
    /\ Idle
    /\ \E i \in StackIndexes(Len(rotors)) :
            \E res \in {remove_rotor(Machine, <<"int", i>>)} :
                /\ SetMachine(res.machine)
                /\ before' = Machine
                /\ last' = Call("remove_rotor", <<i>>, FALSE, -1, "int", res.err)
                /\ UNCHANGED <<rotor, trip, calls, saved>>

StackRemoveRotor ==
    /\ Idle
    /\ \E r \in StackBox(length) :
            \E res \in {remove_rotor(Machine, <<"Rotor", r>>)} :
                /\ SetMachine(res.machine)
                /\ before' = Machine
                /\ last' = Call("remove_rotor", <<r>>, FALSE, -1, "Rotor", res.err)
                /\ UNCHANGED <<rotor, trip, calls, saved>>

StackDisplace ==
    /\ Idle
    /\ \E i \in StackIndexes(Len(rotors)), j \in StackIndexes(Len(rotors)) :
            \E res \in {displace_rotor(Machine, <<"int", i>>, <<"int", j>>)} :
                /\ SetMachine(res.machine)
                /\ before' = Machine
                /\ last' = Call("displace_rotor", <<i, j>>, FALSE, -1, "int", res.err)
                /\ UNCHANGED <<rotor, trip, calls, saved>>

\* displace_rotor(r, t) for two rotor objects
StackDisplaceRotors ==
    /\ Idle
    /\ \E r \in StackBox(length), t \in StackBox(length) :
            \E res \in {displace_rotor(Machine, <<"Rotor", r>>, <<"Rotor", t>>)} :
                /\ SetMachine(res.machine)
                /\ before' = Machine
                /\ last' = Call("displace_rotor", <<r, t>>, FALSE, -1, "Rotor", res.err)
                /\ UNCHANGED <<rotor, trip, calls, saved>>

\* clear_rotor()
StackClear ==
    /\ Idle
    /\ SetMachine(clear_rotor(Machine))
    /\ before' = Machine
    /\ last' = Call("clear_rotor", <<>>, FALSE, -1, PyNone, "none")
    /\ UNCHANGED <<rotor, trip, calls, saved>>

NextStack ==
    \/ StackLoad \/ StackRemoveAt \/ StackRemoveRotor \/ StackDisplace
    \/ StackDisplaceRotors \/ StackClear \/ Forget

SpecStack == Init /\ [][NextStack]_vars

-----------------------------------------------------------------------------
(* Claims about the rotor stack and about encode on a machine that is not  *)
(* ready.                                                                  *)

\* C18: load_rotor(r) puts r at the end of the stack; it raises when r has
\* another length than the machine and when r itself is in the stack, and
\* then leaves the stack alone; another object built like a loaded rotor
\* is accepted.
C18_LoadRotor ==
    last.op = "load_rotor" =>
        LET r == last.x[1]
            loaded == \E i \in 1..Len(before.rotors) : before.rotors[i].id = r.id
        IN  /\ r.length # before.length =>
                    (last.err # "none" /\ rotors = before.rotors)
            /\ loaded => (last.err # "none" /\ rotors = before.rotors)
            /\ (r.length = before.length /\ ~loaded) =>
                    (last.err = "none" /\ rotors = Append(before.rotors, r))

\* The second object was loaded behind the rotor it is built like.
C18_Witness ==
    /\ last.op = "load_rotor"
    /\ last.err = "none"
    /\ Len(rotors) = 3
    /\ rotors[3].id = "A2"
    /\ \E i \in 1..2 : rotors[i].id = "A" /\ [rotors[i] EXCEPT !.id = "A2"] = rotors[3]

\* The place, counted from 1, that index i stands for in a list of len items
\* under Python's wraparound: -k stands for the k-th item from the end.
C19_Place(len, i) == IF i < 0 THEN len + i + 1 ELSE i + 1

\* C19: with L rotors loaded, remove_rotor and displace_rotor take an index
\* from -L to L - 1, -k standing for the rotor at L - k, and raise for any
\* other index.
C19_NegativeIndex ==
    LET L == Len(before.rotors)
        ok(i) == -L <= i /\ i <= L - 1
    IN  /\ (last.op = "remove_rotor" /\ last.out = "int") =>
                IF ok(last.x[1])
                THEN /\ last.err = "none"
                     /\ rotors = ListDel(before.rotors, C19_Place(L, last.x[1]) - 1)
                ELSE last.err # "none" /\ rotors = before.rotors
        /\ (last.op = "displace_rotor" /\ last.out = "int") =>
                IF ok(last.x[1]) /\ ok(last.x[2])
                THEN /\ last.err = "none"
                     /\ Len(rotors) = L
                     /\ rotors[C19_Place(L, last.x[1])] = before.rotors[C19_Place(L, last.x[2])]
                     /\ rotors[C19_Place(L, last.x[2])] = before.rotors[C19_Place(L, last.x[1])]
                ELSE last.err # "none" /\ rotors = before.rotors

\* C20: encode raises NoRotorError on an empty stack and NoReflectorError
\* when rotors are loaded and no reflector is set, and then no element of
\* the machine has moved.
C20_EncodeNotReady ==
    last.op = "encode" =>
        /\ Len(before.rotors) = 0 =>
                (last.err = "NoRotorError" /\ Machine = before)
        /\ (Len(before.rotors) > 0 /\ before.reflector = <<>>) =>
                (last.err = "NoReflectorError" /\ Machine = before)

\* encode raised NoReflectorError on a machine whose rotors and entry wheel
\* can turn, the first-loaded rotor standing on a turnover.
C20_Witness ==
    /\ last.op = "encode"
    /\ last.err = "NoReflectorError"
    /\ Len(rotors) >= 2
    /\ can_rotate(rotors[1])
    /\ is_in_turnover_position(rotors[1])
    /\ can_rotate(etw[1])
    /\ last.x \in 0..(length - 1)

-----------------------------------------------------------------------------
(* Claims about what the small machine accepts and what its calls leave    *)
(* alone.                                                                  *)

\* C21: encode called with an integer outside [0,n) raises an error and
\* leaves every position and the plugboard as they were before the call.
C21_EncodeOutOfRange ==
    (last.op = "encode" /\ last.x \notin 0..(length - 1)) =>
        /\ last.err # "none"
        /\ Machine = before

\* encode(-1) raised ValueError on a machine that is ready to encode and
\* whose last-loaded rotor stands on a turnover.
C21_Witness ==
    /\ last.op = "encode"
    /\ last.x = -1
    /\ last.err = "ValueError"
    /\ Len(rotors) >= 2
    /\ reflector # <<>>
    /\ can_rotate(rotors[Len(rotors)])
    /\ is_in_turnover_position(rotors[Len(rotors)])

\* C22: whatever load_rotor, set_reflector and set_etw calls were made, and
\* whether they raised or not, every rotor of the stack, the reflector when
\* there is one and the entry wheel have the length of the machine; there
\* is always an entry wheel, and set_etw(None) puts in an ETW whose wire is
\* the identity.
C22_LengthsAgree ==
    /\ \A i \in 1..Len(rotors) : rotors[i].length = length
    /\ reflector # <<>> => reflector[1].length = length
    /\ etw # <<>>
    /\ etw[1].length = length
    /\ (last.op = "set_etw" /\ last.out = PyNone) =>
            /\ last.err = "none"
            /\ etw[1].cls = "ETW"
            /\ etw[1].wire = [i \in 0..(length - 1) |-> i]

\* A reflector of another length was refused by a machine that holds three
\* rotors, a reflector and an entry wheel of its own.
C22_Witness ==
    /\ last.op = "set_reflector"
    /\ last.out = "UD"
    /\ last.err = "ValueError"
    /\ Len(rotors) = 3
    /\ reflector # <<>>
    /\ etw[1].id = "E"

\* C24: the entry wheel that the machine builds and a Reflector built
\* without a rotation argument cannot rotate, and no number of turn() and
\* encode calls moves them from the position they were built with; a Rotor
\* built without a rotation argument turns the normal way.
C24_DefaultRotation ==
    /\ etw[1].id = "etw0" => (~can_rotate(etw[1]) /\ etw[1].position = 0)
    /\ reflector # <<>> =>
            (reflector[1].id = "U" =>
                (~can_rotate(reflector[1]) /\ reflector[1].position = 0))
    /\ \A i \in 1..Len(rotors) : rotors[i].id = "A" => rotors[i].rotation = "normal"

\* An encode moved two rotors, one of them built without a rotation
\* argument, past the machine's own entry wheel and in front of the default
\* Reflector.
C24_Witness ==
    /\ last.op = "encode"
    /\ last.err = "none"
    /\ etw[1].id = "etw0"
    /\ reflector[1].id = "U"
    /\ \E i \in 1..Len(rotors) : rotors[i].id = "A" /\ rotors[i].position >= 2
    /\ Cardinality({i \in 1..Len(rotors) : rotors[i].position # before.rotors[i].position}) >= 2

\* C25: in a turn(), when an element that can rotate moves off a position
\* of its turnover set, the next element that can rotate, in the order
\* entry wheel, rotors from last-loaded to first-loaded, reflector, moves
\* as well.
C25_TurnoverCarries ==
    (last.op = "turn" \/ (last.op = "encode" /\ last.err = "none")) =>
        LET order == C9_Order(before)
            moved(slot) == Item(Machine, slot).position # Item(before, slot).position
        IN  \A i \in 1..(Len(order) - 1) :
                (moved(order[i]) /\ is_in_turnover_position(Item(before, order[i])))
                    => moved(order[i + 1])

\* A turn() in which the entry wheel and a rotor each moved off a turnover
\* and three elements moved.
C25_Witness ==
    /\ last.op = "turn"
    /\ Len(C9_Order(before)) >= 3
    /\ \A i \in 1..3 :
            Item(Machine, C9_Order(before)[i]).position #
                Item(before, C9_Order(before)[i]).position
    /\ \A i \in 1..2 : is_in_turnover_position(Item(before, C9_Order(before)[i]))

\* The machine with every position set to 0: what is left is every wire,
\* reverse wire, offset, turnover set and rotation, the order of the stack
\* and the plugboard.
C27_Frame(m) ==
    [length |-> m.length,
     plugboard |-> m.plugboard,
     etw |-> [i \in 1..Len(m.etw) |-> [m.etw[i] EXCEPT !.position = 0]],
     rotors |-> [i \in 1..Len(m.rotors) |-> [m.rotors[i] EXCEPT !.position = 0]],
     reflector |-> [i \in 1..Len(m.reflector) |-> [m.reflector[i] EXCEPT !.position = 0]]]

\* C27: turn() and encode() change positions and nothing else.
C27_OnlyPositionsChange ==
    last.op \in {"turn", "encode"} => C27_Frame(Machine) = C27_Frame(before)

\* An encode moved the positions of a machine with a plug, a rotor with a
\* ring offset and an entry wheel that turns.
C27_Witness ==
    /\ last.op = "encode"
    /\ last.err = "none"
    /\ plugboard # EmptyDict
    /\ \E i \in 1..Len(rotors) : rotors[i].offset # 0
    /\ etw[1].position # before.etw[1].position
    /\ Key(Machine) # Key(before)

-----------------------------------------------------------------------------
(* More claims about a rotor on its own.                                   *)

\* C23: whatever turn() calls and position, offset and turnover assignments
\* were made, accepted or not, position and offset lie in [0,n) and the
\* turnovers in [0,n); an assigned position is taken modulo n; an offset or
\* a turnover set that is refused leaves the one before in place.
C23_RotorInRange ==
    /\ 0 <= rotor.position /\ rotor.position < rotor.length
    /\ 0 <= rotor.offset /\ rotor.offset < rotor.length
    /\ rotor.turnovers \subseteq 0..(rotor.length - 1)
    /\ last.op = "Rotor.position" => rotor.position = last.x % rotor.length
    /\ (last.op = "Rotor.offset" /\ last.err # "none") => rotor.offset = before.offset
    /\ (last.op = "Rotor.turnovers" /\ last.err # "none") =>
            rotor.turnovers = before.turnovers

\* A turnover set with one value in range and one below 0 was refused and
\* the turnovers assigned before are still there.
C23_Witness ==
    /\ last.op = "Rotor.turnovers"
    /\ last.x = {0, -1}
    /\ last.err = "ValueError"
    /\ rotor.turnovers = {rotor.length - 1}
    /\ rotor.position # 0
    /\ rotor.offset # 0

\* C28: with m = position - offset, forward_reading(x) is
\* (wire[(x + m) mod n] - m) mod n and backward_reading(x) is
\* (reverse_wire[(x + m) mod n] - m) mod n; both lie in [0,n) and give for
\* any integer x what they give for x mod n.  The rotor is read between
\* calls and after a turn().
C28_ReadingFormula ==
    (Idle \/ last.op = "Rotor.turn") =>
    LET n == rotor.length
        m == rotor.position - rotor.offset
    IN  \A x \in (-n)..(2 * n) :
            /\ forward_reading(rotor, x) = (rotor.wire[(x + m) % n] - m) % n
            /\ backward_reading(rotor, x) = (rotor.reverse_wire[(x + m) % n] - m) % n
            /\ forward_reading(rotor, x) \in 0..(n - 1)
            /\ backward_reading(rotor, x) \in 0..(n - 1)
            /\ forward_reading(rotor, x) = forward_reading(rotor, x % n)
            /\ backward_reading(rotor, x) = backward_reading(rotor, x % n)

\* A rotor that a turn() has wrapped to position 0, below its offset, so
\* that m is negative, and whose wire moves a value.
C28_Witness ==
    /\ last.op = "Rotor.turn"
    /\ before.position = rotor.length - 1
    /\ rotor.position = 0
    /\ rotor.position - rotor.offset < -1
    /\ \E x \in 0..(rotor.length - 1) : forward_reading(rotor, x) # rotor.wire[x]

-----------------------------------------------------------------------------
(* The round trip with a Rotor as reflector: a machine with rotors, an     *)
(* entry wheel, plugs and any Rotor or Reflector as reflector encodes up   *)
(* to MaxTrip values, has every position set back to what it was, and      *)
(* encodes what it returned with is_a_decoding=True.                       *)

\* Rotor(wire=..., position=1, turnovers={0}): a reflector that turns and
\* whose wire is no involution
ReflectorY(n) == NewRotor("Rotor", "Y", EnumerateWire(TwistRaw(n)), 0, 1, {0}, PyNone)

DecodeReflectors(n) == {<<ReflectorU(n)>>, <<ReflectorW(n)>>, <<ReflectorY(n)>>}

InitDecode ==
    /\ \E stack \in TripStacks(SmallLen), r \in DecodeReflectors(SmallLen),
          e \in EtwBox(SmallLen) \ {<<EtwD(SmallLen)>>} :
        \E key \in TripKeys(stack) :
            \E m \in TripPlugs(set_etw(set_reflector(
                        SetKey(LoadAll(NewMachine(SmallLen), stack, 1), key),
                        r).machine, e).machine) :
                IsMachine(m)
    /\ rotor = <<>>
    /\ before = Machine
    /\ last = NoCall
    /\ trip = [phase |-> "encoding", start |-> Machine, xs |-> <<>>, ys |-> <<>>, zs |-> <<>>]
    /\ calls = 0
    /\ saved = <<>>

\* encode(y, is_a_decoding=True) on the next value that the first pass returned
TripDecodeBack ==
    /\ trip.phase = "decoding"
    /\ Len(trip.zs) < Len(trip.ys)
    /\ \E res \in {encode(Machine, trip.ys[Len(trip.zs) + 1], TRUE, TRUE)} :
           /\ SetMachine(res.machine)
           /\ trip' = [trip EXCEPT !.zs = Append(@, res.ret)]
    /\ UNCHANGED <<rotor, before, last, calls, saved>>

NextDecode == TripEncode \/ TripRestore \/ TripDecodeBack

SpecDecode == InitDecode /\ [][NextDecode]_vars

\* C26: with any bijective Rotor as reflector, involutive or not, what
\* encode(x, is_a_decoding=False) returns from a state is turned back into x
\* by encode(., is_a_decoding=True) from the same positions.
C26_DecodeRoundTrip ==
    trip.phase = "decoding" =>
        \A i \in 1..Len(trip.zs) : trip.zs[i] = trip.xs[i]

\* A whole trip of MaxTrip values through a reflector that turns and whose
\* wire is no involution, which a second encode without is_a_decoding
\* would not have undone.
C26_Witness ==
    /\ trip.phase = "decoding"
    /\ Len(trip.xs) = MaxTrip
    /\ trip.zs = trip.xs
    /\ reflector[1].id = "Y"
    /\ ~Involutive(reflector[1].wire)
    /\ Len(rotors) = 3
    /\ plugboard # EmptyDict
    /\ encode(RestorePositions(Machine, trip.start), trip.ys[1], TRUE, FALSE).ret # trip.xs[1]

-----------------------------------------------------------------------------
(* Saving and restoring a rotor: a rotor of length CfgLen is turned and    *)
(* reconfigured, its configuration is taken with get_configuration and     *)
(* given back to configure, and it is copied; the copy is then turned and  *)
(* reconfigured on its own.                                                *)

NoSaved == <<>>

InitConfig ==
    /\ NoMachine
    /\ \E offset \in 0..(CfgLen - 1), position \in 0..(CfgLen - 1),
          turnovers \in TurnoverChoices(CfgLen), rotation \in Rotations :
        rotor = NewRotor("Rotor", "r", EnumerateWire(TwistRaw(CfgLen)),
                         offset, position, turnovers, rotation)
    /\ before = rotor
    /\ last = NoCall
    /\ trip = NoTrip
    /\ calls = 0
    /\ saved = NoSaved

\* rotor.turn()
CfgTurn ==
    /\ Idle
    /\ rotor' = Rotor_turn(rotor).rotor
    /\ before' = rotor
    /\ last' = Call("Rotor.turn", 0, FALSE, -1, PyNone, "none")
    /\ UNCHANGED <<machine_vars, trip, calls, saved>>

\* rotor.position = value
CfgSetPosition ==
    /\ Idle
    /\ \E value \in 0..(rotor.length - 1) :
        /\ rotor' = position_setter(rotor, value)
        /\ before' = rotor
        /\ last' = Call("Rotor.position", 0, FALSE, -1, PyNone, "none")
        /\ UNCHANGED <<machine_vars, trip, calls, saved>>

\* rotor.offset = n
CfgSetOffset ==
    /\ Idle
    /\ \E n \in 0..(rotor.length - 1) :
        /\ rotor' = offset_setter(rotor, n).rotor
        /\ before' = rotor
        /\ last' = Call("Rotor.offset", 0, FALSE, -1, PyNone, offset_setter(rotor, n).err)
        /\ UNCHANGED <<machine_vars, trip, calls, saved>>

\* rotor.turnovers = value
CfgSetTurnovers ==
    /\ Idle
    /\ \E value \in TurnoverChoices(rotor.length) :
        /\ rotor' = turnovers_setter(rotor, value).rotor
        /\ before' = rotor
        /\ last' = Call("Rotor.turnovers", 0, FALSE, -1, PyNone,
                         turnovers_setter(rotor, value).err)
        /\ UNCHANGED <<machine_vars, trip, calls, saved>>

\* rotor.rotation = value
CfgSetRotation ==
    /\ Idle
    /\ \E value \in Rotations :
        /\ rotor' = [rotor EXCEPT !.rotation = rotation_setter(rotor.cls, value)]
        /\ before' = rotor
        /\ last' = Call("Rotor.rotation", 0, FALSE, -1, PyNone, "none")
        /\ UNCHANGED <<machine_vars, trip, calls, saved>>

\* c = rotor.get_configuration(): the caller keeps c, and the rotor as it
\* was when c was taken.
CfgGetConfiguration ==
    /\ Idle
    /\ saved' = [kind |-> "config", c |-> get_configuration(rotor), of |-> rotor]
    /\ before' = rotor
    /\ last' = Call("Rotor.get_configuration", 0, FALSE, -1, PyNone, "none")
    /\ UNCHANGED <<machine_vars, rotor, trip, calls>>

\* rotor.configure(**c) with the c that the caller kept
CfgConfigure ==
    /\ Idle
    /\ saved # NoSaved
    /\ saved.kind = "config"
    /\ rotor' = configure(rotor, saved.c).rotor
    /\ before' = rotor
    /\ last' = Call("Rotor.configure", 0, FALSE, -1, PyNone, configure(rotor, saved.c).err)
    /\ UNCHANGED <<machine_vars, trip, calls, saved>>

\* other = rotor.copy()
CfgCopy ==
    /\ Idle
    /\ saved' = [kind |-> "copy", obj |-> copy(rotor, "copy").obj[1]]
    /\ before' = rotor
    /\ last' = Call("Rotor.copy", 0, FALSE, -1, PyNone, copy(rotor, "copy").err)
    /\ UNCHANGED <<machine_vars, rotor, trip, calls>>

\* other.turn() on the copy
CfgCopyTurn ==
    /\ Idle
    /\ saved # NoSaved
    /\ saved.kind = "copy"
    /\ saved' = [saved EXCEPT !.obj = Rotor_turn(@).rotor]
    /\ before' = rotor
    /\ last' = Call("copy.turn", 0, FALSE, -1, PyNone, "none")
    /\ UNCHANGED <<machine_vars, rotor, trip, calls>>

\* other.configure(offset=o, position=p, turnovers=t, rotation=w) on the copy
CfgCopyConfigure ==
    /\ Idle
    /\ saved # NoSaved
    /\ saved.kind = "copy"
    /\ \E o \in 0..(CfgLen - 1), p \in 0..(CfgLen - 1),
          t \in TurnoverChoices(CfgLen), w \in Rotations :
        LET c == [offset |-> o, position |-> p, turnovers |-> t, rotation |-> w]
        IN  /\ saved' = [saved EXCEPT !.obj = configure(@, c).rotor]
            /\ last' = Call("copy.configure", 0, FALSE, -1, PyNone, configure(saved.obj, c).err)
    /\ before' = rotor
    /\ UNCHANGED <<machine_vars, rotor, trip, calls>>

NextConfig ==
    \/ CfgTurn \/ CfgSetPosition \/ CfgSetOffset \/ CfgSetTurnovers \/ CfgSetRotation
    \/ CfgGetConfiguration \/ CfgConfigure
    \/ CfgCopy \/ CfgCopyTurn \/ CfgCopyConfigure
    \/ RotorForget

SpecConfig == InitConfig /\ [][NextConfig]_vars

\* C29: Rotor.copy() returns a new rotor with the wire, position, offset,
\* turnovers and rotation of the original, which reads every x as the
\* original does; turning or reconfiguring the copy leaves the original as
\* it was.
C29_CopyIsSame ==
    /\ last.op = "Rotor.copy" =>
        /\ last.err = "none"
        /\ rotor = before
        /\ saved.obj.id # rotor.id
        /\ saved.obj.wire = rotor.wire
        /\ saved.obj.position = rotor.position
        /\ saved.obj.offset = rotor.offset
        /\ saved.obj.turnovers = rotor.turnovers
        /\ saved.obj.rotation = rotor.rotation
        /\ \A x \in 0..(rotor.length - 1) :
            /\ forward_reading(saved.obj, x) = forward_reading(rotor, x)
            /\ backward_reading(saved.obj, x) = backward_reading(rotor, x)
    /\ last.op \in {"copy.turn", "copy.configure"} => rotor = before

\* C30: configure(**c) with the c that an earlier get_configuration()
\* returned gives the rotor the position, offset, turnovers and rotation it
\* had when c was taken, whatever they were.
C30_ConfigureRestores ==
    (last.op = "Rotor.configure") =>
        /\ last.err = "none"
        /\ rotor.position = saved.of.position
        /\ rotor.offset = saved.of.offset
        /\ rotor.turnovers = saved.of.turnovers
        /\ rotor.rotation = saved.of.rotation

-----------------------------------------------------------------------------
(* More claims about the plugboard.                                        *)

\* The value swapped with x on the plugboard of m: the partner of x when x
\* is plugged, x otherwise.
C31_Swapped(m, x) == IF x \in DOMAIN m.plugboard THEN m.plugboard[x] ELSE x

\* C31: read_plugboard(x) returns the value swapped with x, whether
\* translate_result is true or false.
C31_ReadPlugboard ==
    (last.op = "read_plugboard" /\ last.x[1] \in 0..(length - 1)) =>
        /\ last.err = "none"
        /\ last.ret = C31_Swapped(Machine, last.x[1])

-----------------------------------------------------------------------------
(* Overflows: a rotor of length CfgLen has sets of overflows assigned, is  *)
(* turned and has its position assigned.  The caller keeps the last set    *)
(* that was assigned without an error.                                     *)

InitOverflow ==
    /\ NoMachine
    /\ \E position \in 0..(CfgLen - 1), rotation \in Rotations :
        rotor = NewRotor("Rotor", "r", EnumerateWire(TwistRaw(CfgLen)),
                         0, position, {}, rotation)
    /\ before = rotor
    /\ last = NoCall
    /\ trip = NoTrip
    /\ calls = 0
    /\ saved = NoSaved

\* rotor.overflows = value, for any set of integers from 0 to length - 1
OvSetOverflows ==
    /\ Idle
    /\ \E value \in SUBSET (0..(rotor.length - 1)) :
        \E res \in {overflows_setter(rotor, value)} :
            /\ rotor' = res.rotor
            /\ saved' = IF res.err = "none" THEN [kind |-> "overflows", S |-> value]
                        ELSE saved
            /\ last' = Call("Rotor.overflows", value, FALSE, -1, overflows(res.rotor), res.err)
    /\ before' = rotor
    /\ UNCHANGED <<machine_vars, trip, calls>>

\* rotor.turn()
OvTurn ==
    /\ Idle
    /\ rotor' = Rotor_turn(rotor).rotor
    /\ before' = rotor
    /\ last' = Call("Rotor.turn", 0, FALSE, -1, Rotor_turn(rotor).out, "none")
    /\ UNCHANGED <<machine_vars, trip, calls, saved>>

\* rotor.position = value
OvSetPosition ==
    /\ Idle
    /\ \E value \in 0..(rotor.length - 1) :
        /\ rotor' = position_setter(rotor, value)
        /\ before' = rotor
        /\ last' = Call("Rotor.position", value, FALSE, -1, PyNone, "none")
        /\ UNCHANGED <<machine_vars, trip, calls, saved>>

NextOverflow == OvSetOverflows \/ OvTurn \/ OvSetPosition \/ RotorForget

SpecOverflow == InitOverflow /\ [][NextOverflow]_vars

\* C32: on a rotor that turns the normal way, assigning a set S of integers
\* of [0,n) to overflows raises nothing, the overflows then read are S, and
\* a later turn() returns True exactly when the position it reaches is in
\* S.
C32_Overflows ==
    /\ (last.op = "Rotor.overflows" /\ rotor.rotation = "normal") =>
            /\ last.err = "none"
            /\ last.out = last.x
    /\ (last.op = "Rotor.turn" /\ rotor.rotation = "normal" /\ saved # NoSaved) =>
            (last.out = PyTrue <=> rotor.position \in saved.S)

-----------------------------------------------------------------------------
(* More claims about the stepping of the small machine.                    *)

-----------------------------------------------------------------------------
(* The cascade: a machine is set up with rotors that turn the normal way,  *)
(* with or without turnovers, and with or without a reflector and an entry *)
(* wheel that turn; turn() is then called again and again.                 *)

\* Rotor(wire=..., position=1, turnovers={0, 2})
RotorF(n) == NewRotor("Rotor", "F", EnumerateWire(SwapRaw(n)), 0, 1, {0, 2}, PyNone)
\* Rotor(wire=...): no turnover
RotorG(n) == NewRotor("Rotor", "G", EnumerateWire(MirrorRaw(n)), 0, 0, {}, PyNone)
\* ETW(wire=..., rotation="normal"): no turnover
EtwG(n) == NewRotor("ETW", "EG", EnumerateWire(IdentityRaw(n)), 0, 0, {}, "normal")

CascadeStacks(n) ==
    {<<r>> : r \in {RotorA(n), RotorF(n), RotorG(n)}}
        \cup {pair \in {RotorA(n), RotorF(n), RotorG(n)} \X {RotorA(n), RotorF(n), RotorG(n)} :
                    pair[1] # pair[2]}
        \cup {<<RotorA(n), RotorC(n), RotorF(n)>>, <<RotorB(n), RotorA(n)>>}

CascadeReflectors(n) == {<<>>, <<ReflectorU(n)>>, <<ReflectorV(n)>>}

CascadeEtws(n) == {<<>>, <<EtwE(n)>>, <<EtwG(n)>>}

\* The machines that are set up: those in which at most three of the
\* rotors, the reflector and the entry wheel were built to turn.
CascadeSetups(n) ==
    {s \in [stack : CascadeStacks(n), reflector : CascadeReflectors(n), etw : CascadeEtws(n)] :
        Len(s.stack) + (IF s.reflector = <<ReflectorV(n)>> THEN 1 ELSE 0)
            + (IF s.etw # <<>> THEN 1 ELSE 0) <= 3}

InitCascade ==
    /\ \E s \in CascadeSetups(SmallLen) :
        IsMachine(set_etw(set_reflector(LoadAll(NewMachine(SmallLen), s.stack, 1),
                                        s.reflector).machine, s.etw).machine)
    /\ rotor = <<>>
    /\ before = Machine
    /\ last = NoCall
    /\ trip = [phase |-> "cascade", start |-> Machine, xs |-> <<>>, ys |-> <<>>, zs |-> <<>>]
    /\ calls = 0
    /\ saved = NoSaved

\* turn()
CascadeTurn ==
    /\ \E turned \in {Machine_turn(Machine)} : SetMachine(turned)
    /\ UNCHANGED <<rotor, before, last, trip, calls, saved>>

NextCascade == CascadeTurn

\* turn() is called endlessly.
SpecCascade == InitCascade /\ [][NextCascade]_vars /\ WF_vars(CascadeTurn)

\* The places where a machine can hold an element.
C34_Slots == {EtwSlot, ReflectorSlot} \cup {RotorSlot(i) : i \in 1..3}

\* The place of a slot in the list that turn() goes through, 0 when it is
\* not in it.
C34_Rank(m, slot) ==
    LET order == get_non_stationary_items(m)
    IN  IF \E i \in 1..Len(order) : order[i] = slot
        THEN CHOOSE i \in 1..Len(order) : order[i] = slot
        ELSE 0

\* Every element that turn() goes through turns the normal way and has a
\* turnover.
C34_AllForward(m) ==
    \A i \in 1..Len(get_non_stationary_items(m)) :
        /\ Item(m, get_non_stationary_items(m)[i]).rotation = "normal"
        /\ Item(m, get_non_stationary_items(m)[i]).turnovers # {}

\* An element that turn() goes through before the slot has no turnover.
C34_Blocked(m, slot) ==
    \E j \in 1..(C34_Rank(m, slot) - 1) :
        Item(m, get_non_stationary_items(m)[j]).turnovers = {}

-----------------------------------------------------------------------------
(* A reflector without fixed point: a machine of even length is set up     *)
(* with rotors, plugs, an entry wheel and a reflector whose wire is an     *)
(* involution that sends no value to itself, and encodes again and again.  *)

\* The even length of the machine.
EvenLen == 2 * (SmallLen \div 2)

\* 1, 0, 3, 2, ...: every value is swapped with its neighbour
PairRaw(n) == [i \in 1..n |-> IF i % 2 = 1 THEN i ELSE i - 2]

\* Reflector(wire=..., position=1, turnovers={0}, rotation="normal")
ReflectorP(n) == NewRotor("Reflector", "P", EnumerateWire(PairRaw(n)), 0, 1, {0}, "normal")
\* Rotor(wire=..., offset=1, rotation="without")
ReflectorQ(n) == NewRotor("Rotor", "Q", EnumerateWire(PairRaw(n)), 1, 0, {}, "without")

NoFixReflectors(n) == {<<ReflectorU(n)>>, <<ReflectorP(n)>>, <<ReflectorQ(n)>>}

InitNoFix ==
    /\ \E stack \in TripStacks(EvenLen), r \in NoFixReflectors(EvenLen),
          e \in {<<>>, <<EtwE(EvenLen)>>} :
        \E key \in TripKeys(stack) :
            \E m \in TripPlugs(set_etw(set_reflector(
                        SetKey(LoadAll(NewMachine(EvenLen), stack, 1), key),
                        r).machine, e).machine) :
                IsMachine(m)
    /\ rotor = <<>>
    /\ before = Machine
    /\ last = NoCall
    /\ trip = NoTrip
    /\ calls = 0
    /\ saved = NoSaved

\* encode(value, is_a_decoding=...) for every value of [0,n)
NoFixEncode ==
    /\ Idle
    /\ \E value \in 0..(length - 1), is_a_decoding \in BOOLEAN :
            \E res \in {encode(Machine, value, TRUE, is_a_decoding)} :
                /\ SetMachine(res.machine)
                /\ before' = Machine
                /\ last' = Call("encode", value, is_a_decoding, res.ret, PyNone, res.err)
                /\ UNCHANGED <<rotor, trip, calls, saved>>

NextNoFix == NoFixEncode \/ Forget

SpecNoFix == InitNoFix /\ [][NextNoFix]_vars

\* The wire is an involution that sends no value to itself.
C35_NoFixedPoint(wire) ==
    \A k \in DOMAIN wire : wire[k] # k /\ wire[wire[k]] = k

\* C35: when the wire of the reflector is an involution without fixed
\* point, encode(x) differs from x for every x of [0,n), whatever the
\* positions, the offsets, the plugboard and the stack.
C35_NoSelfEncoding ==
    (last.op = "encode" /\ C35_NoFixedPoint(before.reflector[1].wire)) =>
        /\ last.err = "none"
        /\ last.ret # last.x

\* An encode through three rotors, one with a ring offset, a plug, an entry
\* wheel that turns and a reflector that had turned away from position 0
\* and has a ring offset or a position of its own.
C35_Witness ==
    /\ last.op = "encode"
    /\ last.err = "none"
    /\ last.ret # last.x
    /\ C35_NoFixedPoint(before.reflector[1].wire)
    /\ reflector[1].position # reflector[1].offset
    /\ Len(rotors) = 3
    /\ \E i \in 1..3 : rotors[i].offset # 0
    /\ plugboard # EmptyDict
    /\ last.x \in DOMAIN plugboard
    /\ etw[1].position # before.etw[1].position

-----------------------------------------------------------------------------
(* set_key: a machine with one to three rotors, with or without a          *)
(* reflector and an entry wheel of its own, has set_key called up to       *)
(* MaxTrip times, with every combination of the three flags.               *)

\* The values given to set_key: from none to five of them, all the same,
\* the last one out of range in one case.
KeyValues(n) ==
    {[i \in 1..k |-> v] : k \in 0..5, v \in {1, n - 1}} \cup {<<1, n>>}

InitKey ==
    /\ \E stack \in TripStacks(SmallLen), r \in {<<>>, <<ReflectorU(SmallLen)>>},
          e \in {<<>>, <<EtwE(SmallLen)>>} :
        IsMachine(set_etw(set_reflector(LoadAll(NewMachine(SmallLen), stack, 1),
                                        r).machine, e).machine)
    /\ rotor = <<>>
    /\ before = Machine
    /\ last = NoCall
    /\ trip = NoTrip
    /\ calls = 0
    /\ saved = NoSaved

\* set_key(*values, reflector=..., etw=..., offset=...)
KeySetKey ==
    /\ Idle
    /\ calls < MaxTrip
    /\ \E values \in KeyValues(length), reflector_flag \in BOOLEAN, etw_flag \in BOOLEAN,
          offset \in BOOLEAN :
            \E res \in {set_key(Machine, values, reflector_flag, etw_flag, offset)} :
                /\ SetMachine(res.machine)
                /\ last' = Call("set_key",
                                 [values |-> values, reflector |-> reflector_flag,
                                  etw |-> etw_flag],
                                 offset, -1, PyNone, res.err)
    /\ before' = Machine
    /\ calls' = calls + 1
    /\ UNCHANGED <<rotor, trip, saved>>

NextKey == KeySetKey \/ Forget

SpecKey == InitKey /\ [][NextKey]_vars

\* An element with its position and its offset blanked.
C36_Blank(r) == [r EXCEPT !.position = 0, !.offset = 0]

\* C36: set_key, with any combination of the reflector, etw and offset
\* flags, first or repeated, leaves the rotor stack with the same members
\* in the same order, changes nothing of any element but positions (offsets
\* with the offset flag), and changes nothing of a reflector or an entry
\* wheel that its flags do not name.
C36_SetKeyFrame ==
    last.op = "set_key" =>
        /\ [i \in 1..Len(rotors) |-> rotors[i].id] =
                [i \in 1..Len(before.rotors) |-> before.rotors[i].id]
        /\ [i \in 1..Len(rotors) |-> C36_Blank(rotors[i])] =
                [i \in 1..Len(before.rotors) |-> C36_Blank(before.rotors[i])]
        /\ [i \in 1..Len(reflector) |-> C36_Blank(reflector[i])] =
                [i \in 1..Len(before.reflector) |-> C36_Blank(before.reflector[i])]
        /\ C36_Blank(etw[1]) = C36_Blank(before.etw[1])
        /\ plugboard = before.plugboard
        /\ length = before.length
        /\ last.dec => \A i \in 1..Len(before.rotors) :
                            rotors[i].position = before.rotors[i].position
        /\ ~last.dec => \A i \in 1..Len(before.rotors) :
                            rotors[i].offset = before.rotors[i].offset
        /\ ~last.x.reflector => reflector = before.reflector
        /\ ~last.x.etw => etw = before.etw

-----------------------------------------------------------------------------
(* More claims about the stack of rotors.                                  *)

\* The place, counted from 1, of the entry of the stack that a call
\* designates: the entry at an index counted from 0, or the entry that is
\* the rotor given; 0 when there is none.
C37_Place(stack, kind, arg) ==
    IF kind = "int"
    THEN (IF 0 <= arg /\ arg < Len(stack) THEN arg + 1 ELSE 0)
    ELSE IF \E i \in 1..Len(stack) : stack[i].id = arg.id
    THEN CHOOSE i \in 1..Len(stack) : stack[i].id = arg.id
    ELSE 0

\* C37: whatever load_rotor, remove_rotor, displace_rotor and clear_rotor
\* calls were made, and whether they raised or not, no rotor is twice in
\* the stack; a displace_rotor that succeeds exchanges the two entries it
\* designates and leaves the others, a remove_rotor that succeeds deletes
\* the entry it designates and keeps the others in their order, and a call
\* that raises leaves the stack as it was.
C37_StackDistinct ==
    /\ \A i \in 1..Len(rotors) : \A j \in 1..Len(rotors) :
            rotors[i].id = rotors[j].id => i = j
    /\ last.op = "clear_rotor" => rotors = <<>>
    /\ (last.op \in {"remove_rotor", "displace_rotor"} /\ last.err # "none")
            => rotors = before.rotors
    /\ (last.op = "remove_rotor" /\ last.err = "none") =>
            LET p == C37_Place(before.rotors, last.out, last.x[1])
            IN  /\ p > 0
                /\ Len(rotors) = Len(before.rotors) - 1
                /\ \A i \in 1..Len(rotors) :
                        rotors[i] = before.rotors[IF i < p THEN i ELSE i + 1]
    /\ (last.op = "displace_rotor" /\ last.err = "none") =>
            LET p == C37_Place(before.rotors, last.out, last.x[1])
                q == C37_Place(before.rotors, last.out, last.x[2])
            IN  /\ p > 0 /\ q > 0
                /\ Len(rotors) = Len(before.rotors)
                /\ rotors[p] = before.rotors[q]
                /\ rotors[q] = before.rotors[p]
                /\ \A i \in 1..Len(rotors) : i \notin {p, q} => rotors[i] = before.rotors[i]

\* Of three rotors, the first and the last, given as objects, were
\* exchanged and the middle one stayed.
C37_Witness ==
    /\ last.op = "displace_rotor"
    /\ last.out = "Rotor"
    /\ last.err = "none"
    /\ Len(rotors) = 3
    /\ rotors[1] = before.rotors[3]
    /\ rotors[3] = before.rotors[1]
    /\ rotors[1].id # rotors[3].id
    /\ rotors[2] = before.rotors[2]

====
